---- MODULE Spec2Model ----
(***************************************************************************)
(* Verification model of the greenroom media-discovery and agent-          *)
(* comparison core: the comparison orchestrator (tools/agent_tools.py and  *)
(* services/llm/service.py) and the TMDB normalization service             *)
(* (services/tmdb/service.py).                                             *)
(*                                                                         *)
(* Python and JSON values are records [ty, s, n, l]: ty is the type name,  *)
(* s the characters of a str (or the message of an exception), n the       *)
(* value of an int (or of a float, in tenths), l the items of a list of    *)
(* ints.  Temperatures are in tenths (7 is 0.7, 20 is 2.0).                *)
(***************************************************************************)
EXTENDS Integers, Sequences, FiniteSets, TLC

VARIABLES pc, args, resample, alternative, sampleCalls, generateCalls,
          settled, result, op, inp, out, requests, config_map,
          toolName, toolPc, toolIn, toolOut, fetched, todo, categorized,
          samples, warnings, effects

compareVars == <<pc, args, resample, alternative, sampleCalls, generateCalls,
                 settled, result>>
tmdbVars == <<op, inp, out, requests, config_map>>
toolVars == <<toolName, toolPc, toolIn, toolOut, fetched, todo, categorized,
              samples, warnings, effects>>
vars == <<pc, args, resample, alternative, sampleCalls, generateCalls,
          settled, result, op, inp, out, requests, config_map,
          toolName, toolPc, toolIn, toolOut, fetched, todo, categorized,
          samples, warnings, effects>>

-----------------------------------------------------------------------------
(* Bounds of the model *)

MaxPromptLen == 2
MaxTextLen == 1

-----------------------------------------------------------------------------
(* Python values *)

Str(s) == [ty |-> "str", s |-> s, n |-> 0, l |-> <<>>]
None == [ty |-> "NoneType", s |-> <<>>, n |-> 0, l |-> <<>>]
IntV(n) == [ty |-> "int", s |-> <<>>, n |-> n, l |-> <<>>]
Float(n) == [ty |-> "float", s |-> <<>>, n |-> n, l |-> <<>>]
Bool(b) == [ty |-> "bool", s |-> <<>>, n |-> IF b THEN 1 ELSE 0, l |-> <<>>]
List(l) == [ty |-> "list", s |-> <<>>, n |-> 0, l |-> l]
Exc(cls, msg) == [ty |-> cls, s |-> msg, n |-> 0, l |-> <<>>]
\* a key that a JSON object does not have
Absent == [ty |-> "absent", s |-> <<>>, n |-> 0, l |-> <<>>]

\* exceptions.py: the GreenroomError hierarchy
GreenroomErrors ==
    {"GreenroomError", "APIResponseError", "APIConnectionError",
     "APITypeError", "SamplingError"}

\* subclasses of Exception that occur in the model
ExceptionClasses ==
    GreenroomErrors \cup {"RuntimeError", "ValueError", "TypeError",
                          "AttributeError", "ConnectionError", "KeyError"}

IsException(v) == v.ty \in ExceptionClasses

SeqsUpTo(S, n) == UNION {[1..k -> S] : k \in 0..n}

\* str.strip(): drop leading and trailing whitespace
RECURSIVE LStrip(_)
LStrip(s) ==
    IF s = <<>> THEN <<>>
    ELSE IF Head(s) = " " THEN LStrip(Tail(s)) ELSE s

RECURSIVE RStrip(_)
RStrip(s) ==
    IF s = <<>> THEN <<>>
    ELSE IF s[Len(s)] = " " THEN RStrip(SubSeq(s, 1, Len(s) - 1)) ELSE s

Strip(s) == RStrip(LStrip(s))

-----------------------------------------------------------------------------
(* Inputs of compare_llms *)

Prompts == SeqsUpTo({" ", "a"}, MaxPromptLen)
Texts == SeqsUpTo({"x"}, MaxTextLen)
Messages == {<<"boom">>}

DefaultTemperature == 7
DefaultMaxTokens == 500

Temperatures == {-1, 0, DefaultTemperature, 20, 21}
TokenBudgets == {0, 1, DefaultMaxTokens, 4000, 4001}

\* an argument the caller may omit: given = FALSE takes the default
TemperatureArgs == {[given |-> TRUE, v |-> t] : t \in Temperatures}
                       \cup {[given |-> FALSE, v |-> 0]}
MaxTokensArgs == {[given |-> TRUE, v |-> m] : m \in TokenBudgets}
                     \cup {[given |-> FALSE, v |-> 0]}

\* the methods class LLMService defines
LLMServiceMethods ==
    {"generate_response_from_claude", "generate_response_from_ollama"}

\* a service object that offers the same two operations under the names
\* compare_llms looks up
RenamedServiceMethods ==
    {"resample_current_llm", "generate_response_from_alternative_llm"}

ServiceObjects == {LLMServiceMethods, RenamedServiceMethods}

\* the attributes compare_llms reads from its llm_service argument
ResampleAttr == "resample_current_llm"
AlternativeAttr == "generate_response_from_alternative_llm"

OLLAMA_DEFAULT_MODEL == "llama3.2:latest"
SAMPLING_SOURCE == "Claude"

-----------------------------------------------------------------------------
(* compare_llms: validation *)

PromptInvalid(prompt) == prompt = <<>> \/ Strip(prompt) = <<>>

\* variant: the upper bound off by a tenth
TemperatureInvalidLoose(t) == t < 0 \/ t > 21

TemperatureInvalid(t) == t < 0 \/ t > 20

MaxTokensInvalid(m) == m < 1 \/ m > 4000

\* the exception the validation block raises, or None
ValidateInputs(prompt, t, m) ==
    IF PromptInvalid(prompt)
        THEN Exc("ValueError", <<"Prompt cannot be empty">>)
    ELSE IF TemperatureInvalid(t)
        THEN Exc("ValueError", <<"Temperature must be between 0 and 2">>)
    ELSE IF MaxTokensInvalid(m)
        THEN Exc("ValueError", <<"Max tokens must be between 1 and 4000">>)
    ELSE None

\* evaluating the two bound-method arguments of asyncio.gather
LookupMethods(svc) ==
    IF ResampleAttr \notin svc
        THEN Exc("AttributeError", <<ResampleAttr>>)
    ELSE IF AlternativeAttr \notin svc
        THEN Exc("AttributeError", <<AlternativeAttr>>)
    ELSE None

-----------------------------------------------------------------------------
(* The two backends *)

\* what ctx.sample can do: return an object with or without a text
\* attribute, or raise
SampleOutcomes ==
    {[kind |-> "text", val |-> Str(s)] : s \in Texts}
    \cup {[kind |-> "notext", val |-> None]}
    \cup {[kind |-> "raise", val |-> Exc(c, m)] :
             c \in {"RuntimeError", "APIConnectionError"}, m \in Messages}

\* what client.generate can do: return a dict (its "response" entry a str,
\* null or absent), or raise
GenerateOutcomes ==
    {[kind |-> "response", val |-> Str(s)] : s \in Texts}
    \cup {[kind |-> "response", val |-> None]}
    \cup {[kind |-> "absent", val |-> None]}
    \cup {[kind |-> "raise", val |-> Exc(c, m)] :
             c \in {"APIResponseError", "APIConnectionError", "APITypeError"},
             m \in Messages}

\* the value a coroutine settles with: what it returns or the exception
\* it raises
GenerateResponseFromClaude(o) ==
    IF o.kind = "raise"
        THEN IF o.val.ty \in GreenroomErrors
                 THEN o.val
                 ELSE Exc("SamplingError",
                          <<SAMPLING_SOURCE, " API error: ">> \o o.val.s)
    ELSE IF o.kind = "notext"
        THEN Exc("SamplingError",
                 <<SAMPLING_SOURCE, " API returned unexpected content type: ">>)
    ELSE o.val

GenerateResponseFromOllama(o) ==
    IF o.kind = "raise" THEN o.val
    ELSE IF o.kind = "absent" THEN Str(<<>>)
    ELSE o.val

-----------------------------------------------------------------------------
(* compare_llms: fan-in *)

\* variant: gather without return_exceptions, which completes at the first
\* exception
GatherDoneOnFirstFailure(r, a) ==
    \/ r.st = "done" /\ a.st = "done"
    \/ r.st = "done" /\ IsException(r.out)
    \/ a.st = "done" /\ IsException(a.out)

\* asyncio.gather(..., return_exceptions=True) completes when every
\* awaitable has settled
GatherDone(r, a) == r.st = "done" /\ a.st = "done"

\* variant: the two results under each other's label
CombinedResponsesSwapped(r, a) ==
    << <<"claude resample", a>>, <<"ollama alternative", r>> >>

CombinedResponses(r, a) ==
    << <<"claude resample", r>>, <<"ollama alternative", a>> >>

FormatEntry(label, response) ==
    IF IsException(response)
        THEN [source |-> label, text |-> None, error |-> Str(response.s),
              length |-> 0]
        ELSE [source |-> label, text |-> response, error |-> None,
              length |-> Len(response.s)]

\* len() of a value that is not a str raises TypeError
FormatRaises(labeled) ==
    \E i \in 1..Len(labeled) :
        ~IsException(labeled[i][2]) /\ labeled[i][2].ty # "str"

FormatResponses(prompt, labeled) ==
    [prompt |-> prompt,
     responses |-> [i \in 1..Len(labeled) |->
                       FormatEntry(labeled[i][1], labeled[i][2])]]

-----------------------------------------------------------------------------
(* State *)

NoOutcome == [kind |-> "none", val |-> None]
Pending == [st |-> "pending", raw |-> NoOutcome, out |-> None]
NoResult == [prompt |-> <<>>, responses |-> <<>>]
NoArgs == [svc |-> {}, prompt |-> <<>>, temperature |-> 0, max_tokens |-> 0]

CompareInit ==
    /\ pc = "idle"
    /\ args = NoArgs
    /\ resample = Pending
    /\ alternative = Pending
    /\ sampleCalls = <<>>
    /\ generateCalls = <<>>
    /\ settled = <<>>
    /\ result = [raised |-> None, value |-> NoResult]

\* compare_llms up to the await: validation, then the two coroutines are
\* created and handed to asyncio.gather
CompareLlms ==
    /\ pc = "idle"
    /\ \E svc \in ServiceObjects, prompt \in Prompts,
          ta \in TemperatureArgs, ma \in MaxTokensArgs :
        LET t == IF ta.given THEN ta.v ELSE DefaultTemperature
            m == IF ma.given THEN ma.v ELSE DefaultMaxTokens
            invalid == ValidateInputs(prompt, t, m)
            missing == LookupMethods(svc)
            exc == IF invalid # None THEN invalid ELSE missing
        IN /\ args' = [svc |-> svc, prompt |-> prompt, temperature |-> t,
                       max_tokens |-> m]
           /\ pc' = IF exc # None THEN "raised" ELSE "gathering"
           /\ result' = [raised |-> exc, value |-> NoResult]
    /\ resample' = Pending
    /\ alternative' = Pending
    /\ sampleCalls' = <<>>
    /\ generateCalls' = <<>>
    /\ settled' = <<>>
    /\ UNCHANGED <<tmdbVars, toolVars>>

\* the resample coroutine runs up to its await of ctx.sample
ResampleStart ==
    /\ pc = "gathering"
    /\ resample.st = "pending"
    /\ resample' = [resample EXCEPT !.st = "running"]
    /\ sampleCalls' = Append(sampleCalls,
           [messages |-> args.prompt, temperature |-> args.temperature,
            max_tokens |-> args.max_tokens])
    /\ UNCHANGED <<pc, args, alternative, generateCalls, settled, result>>
    /\ UNCHANGED <<tmdbVars, toolVars>>

\* ctx.sample settles and the resample coroutine finishes
ResampleSettle ==
    /\ pc = "gathering"
    /\ resample.st = "running"
    /\ \E o \in SampleOutcomes :
           resample' = [st |-> "done", raw |-> o,
                        out |-> GenerateResponseFromClaude(o)]
    /\ settled' = Append(settled, "resample")
    /\ UNCHANGED <<pc, args, alternative, sampleCalls, generateCalls, result>>
    /\ UNCHANGED <<tmdbVars, toolVars>>

\* the alternative coroutine runs up to its await of client.generate; its
\* task is scheduled after the resample task
AlternativeStart ==
    /\ pc = "gathering"
    /\ resample.st # "pending"
    /\ alternative.st = "pending"
    /\ alternative' = [alternative EXCEPT !.st = "running"]
    /\ generateCalls' = Append(generateCalls,
           [prompt |-> args.prompt, model |-> OLLAMA_DEFAULT_MODEL,
            temperature |-> args.temperature,
            max_tokens |-> args.max_tokens])
    /\ UNCHANGED <<pc, args, resample, sampleCalls, settled, result>>
    /\ UNCHANGED <<tmdbVars, toolVars>>

\* client.generate settles and the alternative coroutine finishes
AlternativeSettle ==
    /\ pc = "gathering"
    /\ alternative.st = "running"
    /\ \E o \in GenerateOutcomes :
           alternative' = [st |-> "done", raw |-> o,
                           out |-> GenerateResponseFromOllama(o)]
    /\ settled' = Append(settled, "alternative")
    /\ UNCHANGED <<pc, args, resample, sampleCalls, generateCalls, result>>
    /\ UNCHANGED <<tmdbVars, toolVars>>

\* gather completes; compare_llms formats the labeled results and returns
GatherReturn ==
    /\ pc = "gathering"
    /\ GatherDone(resample, alternative)
    /\ LET labeled == CombinedResponses(resample.out, alternative.out)
       IN IF FormatRaises(labeled)
          THEN /\ pc' = "raised"
               /\ result' = [raised |-> Exc("TypeError", <<"len">>),
                             value |-> NoResult]
          ELSE /\ pc' = "returned"
               /\ result' = [raised |-> None,
                             value |-> FormatResponses(args.prompt, labeled)]
    /\ UNCHANGED <<args, resample, alternative, sampleCalls, generateCalls,
                   settled>>
    /\ UNCHANGED <<tmdbVars, toolVars>>


\* the tool hands the comparison (or the exception) to its caller; the
\* objects of the invocation are dropped
CompareCallEnds ==
    /\ pc \in {"returned", "raised"}
    /\ pc' = "idle"
    /\ args' = NoArgs
    /\ resample' = Pending
    /\ alternative' = Pending
    /\ sampleCalls' = <<>>
    /\ generateCalls' = <<>>
    /\ settled' = <<>>
    /\ result' = [raised |-> None, value |-> NoResult]
    /\ UNCHANGED <<tmdbVars, toolVars>>

-----------------------------------------------------------------------------
(* TMDB service: values and conversions *)

MaxItems == 2
MaxGenres == 2

DigitSeq == <<"0", "1", "2", "3", "4", "5", "6", "7", "8", "9">>
DigitChars == {DigitSeq[i] : i \in 1..10}
DigitVal(c) == (CHOOSE i \in 1..10 : DigitSeq[i] = c) - 1

IsDigits(s) == s # <<>> /\ \A i \in 1..Len(s) : s[i] \in DigitChars

RECURSIVE DigitsToInt(_)
DigitsToInt(s) ==
    IF s = <<>> THEN 0
    ELSE 10 * DigitsToInt(SubSeq(s, 1, Len(s) - 1)) + DigitVal(s[Len(s)])

\* str() of a non-negative int
RECURSIVE IntToStr(_)
IntToStr(n) ==
    IF n < 10 THEN <<DigitSeq[n + 1]>>
    ELSE IntToStr(n \div 10) \o <<DigitSeq[(n % 10) + 1]>>

\* Python truthiness, as used by "x or default" and "if not x"
Truthy(v) ==
    CASE v.ty = "NoneType" -> FALSE
      [] v.ty = "str" -> v.s # <<>>
      [] v.ty = "list" -> v.l # <<>>
      [] v.ty \in {"int", "float", "bool"} -> v.n # 0
      [] OTHER -> TRUE

\* variant: the value is used as it is
OrKeepsFalsy(v, default) == v

Or(v, default) == IF Truthy(v) THEN v ELSE default

\* seq[:n]
Slice(seq, n) ==
    IF n >= 0
        THEN SubSeq(seq, 1, IF n < Len(seq) THEN n ELSE Len(seq))
        ELSE SubSeq(seq, 1, IF Len(seq) + n > 0 THEN Len(seq) + n ELSE 0)

Date(y, m, d) == [ty |-> "date", s |-> <<>>, n |-> 0, l |-> <<y, m, d>>]

IsLeap(y) == (y % 4 = 0 /\ y % 100 # 0) \/ y % 400 = 0

DaysInMonth(y, m) ==
    IF m = 2 THEN (IF IsLeap(y) THEN 29 ELSE 28)
    ELSE IF m \in {4, 6, 9, 11} THEN 30 ELSE 31

\* variant: only the shape of the string is checked, not the calendar
IsIsoDateShapeOnly(s) ==
    /\ Len(s) = 10
    /\ s[5] = "-" /\ s[8] = "-"
    /\ \A i \in {1, 2, 3, 4, 6, 7, 9, 10} : s[i] \in DigitChars

\* date.fromisoformat on a YYYY-MM-DD string; any other string raises
\* ValueError
IsIsoDate(s) ==
    /\ Len(s) = 10
    /\ s[5] = "-" /\ s[8] = "-"
    /\ \A i \in {1, 2, 3, 4, 6, 7, 9, 10} : s[i] \in DigitChars
    /\ LET y == DigitsToInt(SubSeq(s, 1, 4))
           m == DigitsToInt(SubSeq(s, 6, 7))
           d == DigitsToInt(SubSeq(s, 9, 10))
       IN y >= 1 /\ m \in 1..12 /\ d >= 1 /\ d <= DaysInMonth(y, m)

FromIsoFormat(s) ==
    Date(DigitsToInt(SubSeq(s, 1, 4)), DigitsToInt(SubSeq(s, 6, 7)),
         DigitsToInt(SubSeq(s, 9, 10)))

ParseDate(date_str) ==
    IF ~Truthy(date_str) THEN None
    ELSE IF IsIsoDate(date_str.s) THEN FromIsoFormat(date_str.s)
    ELSE None

-----------------------------------------------------------------------------
(* TMDB service: configuration and response models *)

TMDB_FILM_CONFIG ==
    [endpoint |-> "movie", year_param |-> "primary_release_year",
     title_field |-> "title", date_field |-> "release_date",
     date_sort_prefix |-> "release_date", model_class |-> "TMDBFilm"]

\* variant: the television configuration carries the film year parameter
TMDB_TELEVISION_CONFIG_FilmYearParam ==
    [endpoint |-> "tv", year_param |-> "primary_release_year",
     title_field |-> "name", date_field |-> "first_air_date",
     date_sort_prefix |-> "first_air_date", model_class |-> "TMDBTelevision"]

TMDB_TELEVISION_CONFIG ==
    [endpoint |-> "tv", year_param |-> "first_air_date_year",
     title_field |-> "name", date_field |-> "first_air_date",
     date_sort_prefix |-> "first_air_date", model_class |-> "TMDBTelevision"]

\* variant: a configuration is registered for a third media type
ConfigMapWithPodcast ==
    [film |-> TMDB_FILM_CONFIG, television |-> TMDB_TELEVISION_CONFIG,
     podcast |-> TMDB_FILM_CONFIG]

\* variant: the lookup of a missing media type enters the film
\* configuration under it (dict.setdefault)
ConfigMapAfterSetdefault(cm, media_type) ==
    IF media_type \in DOMAIN cm THEN cm
    ELSE [k \in DOMAIN cm \cup {media_type} |->
             IF k \in DOMAIN cm THEN cm[k] ELSE TMDB_FILM_CONFIG]

\* self.config_map after self.config_map.get(media_type): dict.get enters
\* nothing for a missing key
ConfigMapAfterGet(cm, media_type) == cm

\* TMDBService.config_map, as __init__ builds it
ConfigMap ==
    [film |-> TMDB_FILM_CONFIG, television |-> TMDB_TELEVISION_CONFIG]

MediaTypes == {"film", "television", "podcast", "book", "music", "game"}

\* pydantic field validation (lax mode)
IntFieldOk(v) == v.ty = "int" \/ (v.ty = "str" /\ IsDigits(v.s))
CoerceInt(v) == IF v.ty = "int" THEN v ELSE IntV(DigitsToInt(v.s))

StrFieldOk(v) == v.ty = "str"
OptStrFieldOk(v) == v.ty \in {"absent", "NoneType", "str"}
OptFloatFieldOk(v) == v.ty \in {"absent", "NoneType", "float", "int"}
OptIntListFieldOk(v) == v.ty \in {"absent", "NoneType", "list"}

\* an optional field with default None
Opt(v) == IF v.ty = "absent" THEN None ELSE v
OptFloat(v) == IF v.ty = "int" THEN Float(10 * v.n) ELSE Opt(v)
\* genre_ids: default_factory=list
OptList(v) == IF v.ty = "absent" THEN List(<<>>) ELSE v

\* variant: a schema that checks the identifier only
TMDBFilmInvalidIdOnly(item) == ~IntFieldOk(item.id)

\* TMDBFilm(**item) raises ValidationError
TMDBFilmInvalid(item) ==
    ~(/\ IntFieldOk(item.id)
      /\ OptStrFieldOk(item.title)
      /\ OptStrFieldOk(item.release_date)
      /\ OptFloatFieldOk(item.vote_average)
      /\ OptStrFieldOk(item.overview)
      /\ OptIntListFieldOk(item.genre_ids))

TMDBFilm(item) ==
    [id |-> CoerceInt(item.id), title |-> Opt(item.title),
     release_date |-> Opt(item.release_date),
     vote_average |-> OptFloat(item.vote_average),
     overview |-> Opt(item.overview), genre_ids |-> OptList(item.genre_ids)]

\* TMDBTelevision(**item) raises ValidationError
TMDBTelevisionInvalid(item) ==
    ~(/\ IntFieldOk(item.id)
      /\ OptStrFieldOk(item.name)
      /\ OptStrFieldOk(item.first_air_date)
      /\ OptFloatFieldOk(item.vote_average)
      /\ OptStrFieldOk(item.overview)
      /\ OptIntListFieldOk(item.genre_ids))

TMDBTelevision(item) ==
    [id |-> CoerceInt(item.id), name |-> Opt(item.name),
     first_air_date |-> Opt(item.first_air_date),
     vote_average |-> OptFloat(item.vote_average),
     overview |-> Opt(item.overview), genre_ids |-> OptList(item.genre_ids)]

\* variant: a genre record is validated on its id alone
TMDBGenreInvalidIdOnly(genre) == ~IntFieldOk(genre.id)

\* TMDBGenre(**genre) raises ValidationError
TMDBGenreInvalid(genre) == ~(IntFieldOk(genre.id) /\ StrFieldOk(genre.name))

TMDBGenre(genre) == [id |-> CoerceInt(genre.id), name |-> genre.name]

ModelInvalid(cls, item) ==
    IF cls = "TMDBFilm" THEN TMDBFilmInvalid(item)
    ELSE TMDBTelevisionInvalid(item)

ModelInstance(cls, item) ==
    IF cls = "TMDBFilm" THEN TMDBFilm(item) ELSE TMDBTelevision(item)

GetAttr(obj, name, default) ==
    IF name \in DOMAIN obj THEN obj[name] ELSE default

-----------------------------------------------------------------------------
(* TMDB service: get_media *)

\* cls(**item) on an item that is not a mapping raises TypeError, which
\* the except ValidationError clause does not catch
UnpackRaises(raw) == \E i \in 1..Len(raw) : ~raw[i].mapping

RECURSIVE ParseResponse(_, _)
ParseResponse(raw_results, config) ==
    IF raw_results = <<>> THEN <<>>
    ELSE LET item_data == Head(raw_results)
             rest == ParseResponse(Tail(raw_results), config)
         IN IF ModelInvalid(config.model_class, item_data)
            THEN rest
            ELSE <<ModelInstance(config.model_class, item_data)>> \o rest

ToStandardMedia(tmdb_item, config, media_type) ==
    [id |-> Str(IntToStr(tmdb_item.id.n)),
     media_type |-> media_type,
     title |-> Or(GetAttr(tmdb_item, config.title_field, None), Str(<<>>)),
     date |-> ParseDate(GetAttr(tmdb_item, config.date_field, None)),
     rating |-> tmdb_item.vote_average,
     description |-> tmdb_item.overview,
     genre_ids |-> Or(tmdb_item.genre_ids, List(<<>>))]

LimitItems(standard_items, max_results) == Slice(standard_items, max_results)

\* dict.get(key, 0)
GetOrZero(v) == IF v.ty = "absent" THEN IntV(0) ELSE v

BuildParams(config, genre_id, year, language, sort_by, page) ==
    LET keys == {"sort_by", "page", "include_adult", "include_video"}
                \cup (IF genre_id # None THEN {"with_genres"} ELSE {})
                \cup (IF year # None THEN {config.year_param} ELSE {})
                \cup (IF language # None
                         THEN {"with_original_language"} ELSE {})
    IN [k \in keys |->
           CASE k = "sort_by" ->
                    IF sort_by # None THEN sort_by
                    ELSE Str(<<"popularity.desc">>)
             [] k = "page" -> IntV(page)
             [] k = "include_adult" -> Bool(FALSE)
             [] k = "include_video" -> Bool(FALSE)
             [] k = "with_genres" -> genre_id
             [] k = "with_original_language" -> language
             [] OTHER -> year]

\* variant: the page number is taken from the provider's response object
MediaListOfProviderPage(data, config, media_type, page, max_results) ==
    LET tmdb_items == ParseResponse(data.results, config)
        standard_items == [i \in 1..Len(tmdb_items) |->
                              ToStandardMedia(tmdb_items[i], config,
                                              media_type)]
    IN [results |-> LimitItems(standard_items, max_results),
        total_results |-> GetOrZero(data.total_results),
        page |-> IF data.page.ty = "int" THEN data.page.n ELSE page,
        total_pages |-> GetOrZero(data.total_pages)]

\* the MediaList get_media builds from the provider's response object
MediaListOf(data, config, media_type, page, max_results) ==
    LET tmdb_items == ParseResponse(data.results, config)
        standard_items == [i \in 1..Len(tmdb_items) |->
                              ToStandardMedia(tmdb_items[i], config,
                                              media_type)]
    IN [results |-> LimitItems(standard_items, max_results),
        total_results |-> GetOrZero(data.total_results),
        page |-> page,
        total_pages |-> GetOrZero(data.total_pages)]

NoMediaList ==
    [results |-> <<>>, total_results |-> None, page |-> 0,
     total_pages |-> None]

\* variant: a response object without results is taken for an empty page
GetMediaOutcomeEmptyPage(resp, config, media_type, page, max_results) ==
    IF resp.kind = "raise"
        THEN [raised |-> resp.exc, value |-> NoMediaList]
    ELSE IF UnpackRaises(resp.results)
        THEN [raised |-> Exc("TypeError", <<"mapping">>),
              value |-> NoMediaList]
    ELSE [raised |-> None,
          value |-> MediaListOf(resp, config, media_type, page, max_results)]

\* what get_media does with the outcome of client.get
GetMediaOutcome(resp, config, media_type, page, max_results) ==
    IF resp.kind = "raise"
        THEN [raised |-> resp.exc, value |-> NoMediaList]
    ELSE IF ~resp.has_results
        THEN [raised |-> Exc("KeyError", <<"results">>),
              value |-> NoMediaList]
    ELSE IF UnpackRaises(resp.results)
        THEN [raised |-> Exc("TypeError", <<"mapping">>),
              value |-> NoMediaList]
    ELSE [raised |-> None,
          value |-> MediaListOf(resp, config, media_type, page, max_results)]

-----------------------------------------------------------------------------
(* TMDB service: get_genres *)

RECURSIVE ParseGenres(_)
ParseGenres(raw_genres) ==
    IF raw_genres = <<>> THEN <<>>
    ELSE LET genre == Head(raw_genres)
             rest == ParseGenres(Tail(raw_genres))
         IN IF TMDBGenreInvalid(genre) THEN rest
            ELSE <<TMDBGenre(genre)>> \o rest

Genre(id, name, has_films, has_tv_shows) ==
    [id |-> id, name |-> name, has_films |-> has_films,
     has_tv_shows |-> has_tv_shows]

\* variant: no name is ever found in the map
HasKeyNever(genres_map, name) == FALSE

\* genres_map is a dict: its entries in insertion order
HasKey(genres_map, name) ==
    \E i \in 1..Len(genres_map) : genres_map[i].name = name

\* variant: an existing key keeps its value
SetItemKeepsFirst(genres_map, genre) ==
    IF HasKey(genres_map, genre.name) THEN genres_map
    ELSE Append(genres_map, genre)

\* genres_map[name] = genre: a new key is appended, an existing key keeps
\* its place and takes the new value
SetItem(genres_map, genre) ==
    IF HasKey(genres_map, genre.name)
        THEN [i \in 1..Len(genres_map) |->
                 IF genres_map[i].name = genre.name THEN genre
                 ELSE genres_map[i]]
        ELSE Append(genres_map, genre)

RECURSIVE AddFilmGenres(_, _)
AddFilmGenres(genres_map, film_genres) ==
    IF film_genres = <<>> THEN genres_map
    ELSE LET tmdb_genre == Head(film_genres)
         IN AddFilmGenres(
                SetItem(genres_map,
                        Genre(tmdb_genre.id, tmdb_genre.name, TRUE, FALSE)),
                Tail(film_genres))

RECURSIVE AddTvGenres(_, _)
AddTvGenres(genres_map, tv_genres) ==
    IF tv_genres = <<>> THEN genres_map
    ELSE LET tmdb_genre == Head(tv_genres)
             updated ==
                 IF HasKey(genres_map, tmdb_genre.name)
                     THEN [i \in 1..Len(genres_map) |->
                              IF genres_map[i].name = tmdb_genre.name
                                  THEN [genres_map[i] EXCEPT
                                           !.has_tv_shows = TRUE]
                                  ELSE genres_map[i]]
                     ELSE SetItem(genres_map,
                                  Genre(tmdb_genre.id, tmdb_genre.name,
                                        FALSE, TRUE))
         IN AddTvGenres(updated, Tail(tv_genres))

\* variant: the television genres are entered first
CombineGenreListsTvFirst(film_genres, tv_genres) ==
    LET tv_first == AddTvGenres(<<>>, tv_genres)
        FilmFlag(g) == \E i \in 1..Len(film_genres) :
                           film_genres[i].name = g.name
        new_films == SelectSeq(film_genres,
                               LAMBDA g : ~HasKey(tv_first, g.name))
    IN [i \in 1..Len(tv_first) |->
            [tv_first[i] EXCEPT !.has_films = FilmFlag(tv_first[i])]]
       \o AddFilmGenres(<<>>, new_films)

CombineGenreLists(film_genres, tv_genres) ==
    AddTvGenres(AddFilmGenres(<<>>, film_genres), tv_genres)

\* dict.get("genres", [])
GenresOf(data) == IF data.has_genres THEN data.genres ELSE <<>>

\* variant: both vocabularies are requested whatever the first request
\* does
GenreFetchesBoth(film_resp) ==
    <<[endpoint |-> <<"/genre/movie/list">>, params |-> <<>>],
      [endpoint |-> <<"/genre/tv/list">>, params |-> <<>>]>>

\* the requests get_genres hands to client.get, in order: the television
\* request follows only when the film request has returned
GenreFetches(film_resp) ==
    IF film_resp.kind = "raise"
        THEN <<[endpoint |-> <<"/genre/movie/list">>, params |-> <<>>]>>
        ELSE <<[endpoint |-> <<"/genre/movie/list">>, params |-> <<>>],
               [endpoint |-> <<"/genre/tv/list">>, params |-> <<>>]>>

\* what get_genres does with the outcomes of its two client.get calls
GetGenresOutcome(film_resp, tv_resp) ==
    IF film_resp.kind = "raise"
        THEN [raised |-> film_resp.exc, value |-> <<>>]
    ELSE IF tv_resp.kind = "raise"
        THEN [raised |-> tv_resp.exc, value |-> <<>>]
    ELSE IF UnpackRaises(GenresOf(film_resp))
            \/ UnpackRaises(GenresOf(tv_resp))
        THEN [raised |-> Exc("TypeError", <<"mapping">>), value |-> <<>>]
    ELSE [raised |-> None,
          value |-> CombineGenreLists(ParseGenres(GenresOf(film_resp)),
                                      ParseGenres(GenresOf(tv_resp)))]

-----------------------------------------------------------------------------
(* TMDB service: what the provider can send *)

ValidDateStr == <<"2", "0", "2", "4", "-", "0", "2", "-", "2", "9">>
BadDateStr == <<"n", "o", "t", "-", "a", "-", "d", "a", "t", "e">>
NoCalendarDateStr == <<"2", "0", "2", "3", "-", "0", "2", "-", "2", "9">>

EmptyItem ==
    [mapping |-> TRUE, id |-> Absent, title |-> Absent, name |-> Absent,
     release_date |-> Absent, first_air_date |-> Absent,
     vote_average |-> Absent, overview |-> Absent, genre_ids |-> Absent]

RawItems ==
    { \* fully populated film and television records
      [EmptyItem EXCEPT !.id = IntV(1), !.title = Str(<<"F">>),
                        !.release_date = Str(ValidDateStr),
                        !.vote_average = Float(84),
                        !.overview = Str(<<"o">>),
                        !.genre_ids = List(<<28>>)],
      [EmptyItem EXCEPT !.id = IntV(2), !.name = Str(<<"S">>),
                        !.first_air_date = Str(ValidDateStr),
                        !.vote_average = IntV(8),
                        !.overview = Str(<<"o">>),
                        !.genre_ids = List(<<18, 53>>)],
      \* only an identifier
      [EmptyItem EXCEPT !.id = IntV(3)],
      \* an identifier given as a string of digits, and an empty date
      [EmptyItem EXCEPT !.id = Str(<<"1", "2">>), !.release_date = Str(<<>>),
                        !.first_air_date = Str(<<>>)],
      \* a date of the right shape that is no calendar date
      [EmptyItem EXCEPT !.id = IntV(7), !.title = Str(<<"C">>),
                        !.name = Str(<<"C">>),
                        !.release_date = Str(NoCalendarDateStr),
                        !.first_air_date = Str(NoCalendarDateStr)],
      \* no usable identifier
      [EmptyItem EXCEPT !.title = Str(<<"N">>), !.name = Str(<<"N">>)],
      [EmptyItem EXCEPT !.id = None],
      [EmptyItem EXCEPT !.id = Str(<<"x">>)],
      \* an identifier and an optional field of the wrong type
      [EmptyItem EXCEPT !.id = IntV(4), !.title = IntV(5),
                        !.name = IntV(5)],
      \* an identifier and a malformed date
      [EmptyItem EXCEPT !.id = IntV(5), !.title = Str(<<"D">>),
                        !.name = Str(<<"D">>),
                        !.release_date = Str(BadDateStr),
                        !.first_air_date = Str(BadDateStr)],
      \* an identifier and explicit nulls
      [EmptyItem EXCEPT !.id = IntV(6), !.title = None, !.name = None,
                        !.release_date = None, !.first_air_date = None,
                        !.vote_average = None, !.overview = None,
                        !.genre_ids = None],
      \* an array element that is not a JSON object
      [EmptyItem EXCEPT !.mapping = FALSE] }

Pages == SeqsUpTo(RawItems, MaxItems)

EmptyGenre == [mapping |-> TRUE, id |-> Absent, name |-> Absent]

RawGenres ==
    { [EmptyGenre EXCEPT !.id = IntV(1), !.name = Str(<<"A">>)],
      [EmptyGenre EXCEPT !.id = IntV(2), !.name = Str(<<"A">>)],
      [EmptyGenre EXCEPT !.id = IntV(3), !.name = Str(<<"B">>)],
      [EmptyGenre EXCEPT !.id = Str(<<"5">>), !.name = Str(<<"C">>)],
      [EmptyGenre EXCEPT !.name = Str(<<"B">>)],
      [EmptyGenre EXCEPT !.id = IntV(4)],
      [EmptyGenre EXCEPT !.mapping = FALSE] }

Vocabularies == SeqsUpTo(RawGenres, MaxGenres)

\* the ways a request of TMDBClient.get fails: a non-2xx status, a body
\* that is not JSON, a JSON body that is not an object, no connection
UpstreamFailures == {"http_error", "invalid_json", "not_object", "unreachable"}

\* the exception TMDBClient.get raises for each of them
ClientGetRaises(failure) ==
    CASE failure = "http_error" ->
             Exc("RuntimeError", <<"TMDB API error: ", "500">>)
      [] failure = "invalid_json" ->
             Exc("RuntimeError", <<"TMDB API returned invalid JSON: ">>)
      [] failure = "not_object" ->
             Exc("RuntimeError", <<"TMDB API returned unexpected type: ">>)
      [] OTHER ->
             Exc("ConnectionError", <<"Failed to connect to TMDB API: ">>)

ClientErrors == {ClientGetRaises(f) : f \in UpstreamFailures}

NoResponse ==
    [kind |-> "none", failure |-> "none", exc |-> None,
     has_results |-> FALSE, results |-> <<>>,
     total_results |-> Absent, total_pages |-> Absent, page |-> Absent]

\* total_results, total_pages and page of the provider's response object
Totals ==
    {<<IntV(100), IntV(5), IntV(1)>>, <<IntV(100), Absent, IntV(9)>>,
     <<Absent, Absent, Absent>>}

DiscoverResponses ==
    {[NoResponse EXCEPT !.kind = "data", !.has_results = TRUE,
                        !.results = p, !.total_results = t[1],
                        !.total_pages = t[2], !.page = t[3]] :
         p \in Pages, t \in Totals}
    \cup {[NoResponse EXCEPT !.kind = "data"]}
    \cup {[NoResponse EXCEPT !.kind = "raise", !.failure = f,
                             !.exc = ClientGetRaises(f)] :
              f \in UpstreamFailures}

NoGenreResponse ==
    [kind |-> "none", failure |-> "none", exc |-> None,
     has_genres |-> FALSE, genres |-> <<>>]

GenreResponses ==
    {[NoGenreResponse EXCEPT !.kind = "data", !.has_genres = TRUE,
                             !.genres = v] : v \in Vocabularies}
    \cup {[NoGenreResponse EXCEPT !.kind = "data"]}
    \cup {[NoGenreResponse EXCEPT !.kind = "raise", !.failure = f,
                                  !.exc = ClientGetRaises(f)] :
              f \in UpstreamFailures}

\* the optional filters of a get_media call
NoFilters ==
    [genre_id |-> None, year |-> None, language |-> None, sort_by |-> None]

FilterArgs ==
    {NoFilters,
     [NoFilters EXCEPT !.year = IntV(2024)],
     \* filters that are given and falsy
     [NoFilters EXCEPT !.genre_id = IntV(0), !.language = Str(<<>>)],
     [genre_id |-> IntV(28), year |-> IntV(2024),
      language |-> Str(<<"e", "n">>),
      sort_by |-> Str(<<"vote_average.desc">>)]}

\* the media_type argument: the declared media types and a string that is
\* none of them (the annotation is not enforced at run time)
MediaTypeArgs == MediaTypes \cup {"anime"}

PageArgs == {1, 2}
MaxResultsArgs == (0 - 1)..(MaxItems + 1)

-----------------------------------------------------------------------------
(* TMDB service: operations *)

NoInput ==
    [media_type |-> "", filters |-> NoFilters, page |-> 0, max_results |-> 0,
     resp |-> NoResponse, film_resp |-> NoGenreResponse,
     tv_resp |-> NoGenreResponse]

TmdbInit ==
    /\ config_map = ConfigMap
    /\ op = "none"
    /\ inp = NoInput
    /\ out = [raised |-> None, value |-> <<>>]
    /\ requests = <<>>

\* one call of TMDBService.get_media, from the configuration lookup to the
\* returned MediaList
GetMedia ==
    /\ op = "none"
    /\ \E media_type \in MediaTypeArgs, f \in FilterArgs, page \in PageArgs,
          max_results \in MaxResultsArgs :
        /\ config_map' = ConfigMapAfterGet(config_map, media_type)
        /\ IF media_type \notin DOMAIN config_map
           THEN
             /\ inp' = [NoInput EXCEPT !.media_type = media_type,
                                       !.filters = f, !.page = page,
                                       !.max_results = max_results]
             /\ out' = [raised |-> Exc("ValueError",
                                       <<"Unsupported media type: ",
                                         media_type>>),
                        value |-> NoMediaList]
             /\ requests' = <<>>
           ELSE
             LET config == config_map[media_type]
             IN \E resp \in DiscoverResponses :
                 /\ inp' = [NoInput EXCEPT !.media_type = media_type,
                                           !.filters = f, !.page = page,
                                           !.max_results = max_results,
                                           !.resp = resp]
                 /\ requests' =
                        <<[endpoint |-> <<"/discover/", config.endpoint>>,
                           params |-> BuildParams(config, f.genre_id, f.year,
                                                  f.language, f.sort_by,
                                                  page)]>>
                 /\ out' = GetMediaOutcome(resp, config, media_type, page,
                                           max_results)
    /\ op' = "get_media"
    /\ UNCHANGED <<compareVars, toolVars>>

\* one call of TMDBService.get_genres: the film fetch, then the television
\* fetch, then parsing and merging
GetGenres ==
    /\ op = "none"
    /\ \E film_resp \in GenreResponses :
        /\ requests' = GenreFetches(film_resp)
        /\ IF film_resp.kind = "raise"
           THEN /\ inp' = [NoInput EXCEPT !.film_resp = film_resp]
                /\ out' = GetGenresOutcome(film_resp, NoGenreResponse)
           ELSE \E tv_resp \in GenreResponses :
                /\ inp' = [NoInput EXCEPT !.film_resp = film_resp,
                                          !.tv_resp = tv_resp]
                /\ out' = GetGenresOutcome(film_resp, tv_resp)
    /\ op' = "get_genres"
    /\ UNCHANGED config_map
    /\ UNCHANGED <<compareVars, toolVars>>

\* the caller has the MediaList, the GenreList or the exception; the
\* objects of the request are dropped
TmdbCallEnds ==
    /\ op # "none"
    /\ op' = "none"
    /\ inp' = NoInput
    /\ out' = [raised |-> None, value |-> <<>>]
    /\ requests' = <<>>
    /\ UNCHANGED config_map
    /\ UNCHANGED <<compareVars, toolVars>>

-----------------------------------------------------------------------------
(* Genre tools (tools/genre_tools.py): what the service and the sampling  *)
(* context can answer                                                      *)

\* the genre records of the provider the tools are run against: two names
\* of the hardcoded mood map and two names outside it
ToolRawGenres ==
    { [EmptyGenre EXCEPT !.id = IntV(27), !.name = Str(<<"Horror">>)],
      [EmptyGenre EXCEPT !.id = IntV(35), !.name = Str(<<"Comedy">>)],
      [EmptyGenre EXCEPT !.id = IntV(37), !.name = Str(<<"Western">>)],
      [EmptyGenre EXCEPT !.id = IntV(10001), !.name = Str(<<"Noir">>)] }

ToolGenreResponses ==
    {[NoGenreResponse EXCEPT !.kind = "data", !.has_genres = TRUE,
                             !.genres = v] :
         v \in SeqsUpTo(ToolRawGenres, MaxGenres)}
    \cup {[NoGenreResponse EXCEPT !.kind = "raise", !.failure = f,
                                  !.exc = ClientGetRaises(f)] :
              f \in UpstreamFailures}

\* what service.get_genres() gives the tools: a GenreList or an exception
ServiceGenreOutcomes ==
    {GetGenresOutcome(f, t) : f \in ToolGenreResponses,
                              t \in ToolGenreResponses}

NoFetch == [raised |-> None, value |-> <<>>]

\* the moods of greenroom.config.Mood, in declaration order
MoodValues == <<"Dark", "Light", "Serious", "Fun", "Other">>

Mood == {MoodValues[i] : i \in 1..Len(MoodValues)}

\* greenroom.config.GENRE_MOOD_MAP, on the names that occur here
GENRE_MOOD_MAP == [Horror |-> "Dark", Comedy |-> "Light"]

\* the names that occur, in the order of str comparison (code points)
CodePointOrder == <<"Comedy", "Horror", "Noir", "Western">>

\* a < b on two names
StrLess(a, b) ==
    \E i, j \in 1..Len(CodePointOrder) :
        /\ CodePointOrder[i] = a
        /\ CodePointOrder[j] = b
        /\ i < j

\* the text of a genre name
NameText(name) == name.s[1]

\* what ctx.sample answers a categorization request: a mood, a mood
\* within whitespace, a word that is no mood, a content object without
\* text, an exception
CategorizeSampleOutcomes ==
    {[kind |-> "text", text |-> <<"Dark">>, exc |-> None],
     [kind |-> "text", text |-> <<" ", "Fun", " ">>, exc |-> None],
     [kind |-> "text", text |-> <<"InvalidMood">>, exc |-> None],
     [kind |-> "notext", text |-> <<>>, exc |-> None],
     [kind |-> "raise", text |-> <<>>,
      exc |-> Exc("RuntimeError", <<"Sampling not supported">>)]}

\* what ctx.sample answers the simplification request
SimplifySampleOutcomes ==
    {[kind |-> "text", text |-> <<"Comedy", ", ", "Horror">>, exc |-> None],
     [kind |-> "text", text |-> <<"Here are the genres: ", "Horror">>,
      exc |-> None],
     [kind |-> "text", text |-> <<>>, exc |-> None],
     [kind |-> "notext", text |-> <<>>, exc |-> None],
     [kind |-> "raise", text |-> <<>>,
      exc |-> Exc("RuntimeError", <<"Sampling not supported">>)]}

-----------------------------------------------------------------------------
(* Genre tools: fetch_genres, simplify_genres, categorize_all_genres *)

\* the dict fetch_genres builds from genre_list.genres, as its entries in
\* insertion order
RECURSIVE FetchGenresDict(_, _)
FetchGenresDict(genres_dict, genres) ==
    IF genres = <<>> THEN genres_dict
    ELSE FetchGenresDict(SetItem(genres_dict, Head(genres)), Tail(genres))

\* variant: a failed get_genres is taken for a catalog without genres
FetchGenresSwallowing(outcome) ==
    IF outcome.raised # None THEN [raised |-> None, value |-> <<>>]
    ELSE [raised |-> None, value |-> FetchGenresDict(<<>>, outcome.value)]

\* fetch_genres(service): the dict, or the exception of get_genres
FetchGenres(outcome) ==
    IF outcome.raised # None THEN [raised |-> outcome.raised, value |-> <<>>]
    ELSE [raised |-> None, value |-> FetchGenresDict(<<>>, outcome.value)]

\* genres.keys(), as texts
Keys(genres_dict) ==
    [i \in 1..Len(genres_dict) |-> NameText(genres_dict[i].name)]

RECURSIVE InsertSorted(_, _)
InsertSorted(sorted, name) ==
    IF sorted = <<>> THEN <<name>>
    ELSE IF StrLess(name, Head(sorted)) THEN <<name>> \o sorted
    ELSE <<Head(sorted)>> \o InsertSorted(Tail(sorted), name)

\* sorted(names)
RECURSIVE Sorted(_)
Sorted(names) ==
    IF names = <<>> THEN <<>>
    ELSE InsertSorted(Sorted(SubSeq(names, 1, Len(names) - 1)),
                      names[Len(names)])

\* ", ".join(names)
RECURSIVE Join(_)
Join(names) ==
    IF names = <<>> THEN <<>>
    ELSE IF Len(names) = 1 THEN names
    ELSE <<Head(names), ", ">> \o Join(Tail(names))

\* the message of the exception a failed use of the sampled response
\* ends in
SampleFailure(o) ==
    IF o.kind = "raise" THEN o.exc
    ELSE Exc("AttributeError", <<"object has no attribute 'text'">>)

\* variant: a failed sampling call ends the tool with the exception
SimplifyAfterSampleRaising(genres_dict, o) ==
    IF o.kind = "text"
        THEN [raised |-> None, value |-> o.text, warned |-> <<>>]
        ELSE [raised |-> SampleFailure(o), value |-> <<>>, warned |-> <<>>]

\* simplify_genres from the answer of ctx.sample on: the text, or the
\* warning and the sorted names
SimplifyAfterSample(genres_dict, o) ==
    IF o.kind = "text"
        THEN [raised |-> None, value |-> o.text, warned |-> <<>>]
        ELSE [raised |-> None,
              value |-> Join(Sorted(Keys(genres_dict))),
              warned |-> <<<<"Sampling failed (", SampleFailure(o).ty, ": ">>
                              \o SampleFailure(o).s
                              \o <<"), using fallback">>>>]

\* variant: the buckets are created without the bucket Other
CreateCategorizedDictWithoutOther == [m \in Mood \ {"Other"} |-> <<>>]

\* create_empty_categorized_dict()
CreateEmptyCategorizedDict == [m \in Mood |-> <<>>]

\* variant: a name outside the mood map goes to Other without sampling
CategorizeSingleGenreNoSampling(genre_name, o) ==
    IF genre_name \in DOMAIN GENRE_MOOD_MAP
        THEN [mood |-> GENRE_MOOD_MAP[genre_name], sampled |-> FALSE,
              warned |-> <<>>]
        ELSE [mood |-> "Other", sampled |-> FALSE, warned |-> <<>>]

\* _categorize_single_genre: the mood, whether ctx.sample was called, and
\* the warnings issued; o is what ctx.sample answers when it is called
CategorizeSingleGenre(genre_name, o) ==
    IF genre_name \in DOMAIN GENRE_MOOD_MAP
        THEN [mood |-> GENRE_MOOD_MAP[genre_name], sampled |-> FALSE,
              warned |-> <<>>]
    ELSE IF o.kind = "text"
        THEN LET mood == Strip(o.text)
             IN [mood |-> IF Len(mood) = 1 /\ mood[1] \in Mood THEN mood[1]
                          ELSE "Other",
                 sampled |-> TRUE, warned |-> <<>>]
    ELSE [mood |-> "Other", sampled |-> TRUE,
          warned |-> <<<<"LLM categorization failed for '", genre_name,
                         "' (", SampleFailure(o).ty, ": ">>
                          \o SampleFailure(o).s \o <<")">>>>]

-----------------------------------------------------------------------------
(* Discovery tool (tools/discovery_tools.py) *)

\* valid_sort_options
ValidSortOptions ==
    {"popularity.desc", "popularity.asc", "vote_average.desc",
     "vote_average.asc", "release_date.desc", "release_date.asc"}

\* the alphabetic characters that occur in the language arguments
AlphaChars == {"e", "n", "g"}

\* str.isalpha()
IsAlpha(s) == s # <<>> /\ \A i \in 1..Len(s) : s[i] \in AlphaChars

\* variant: the lower bound of max_results is not checked
ValidateDiscoveryParamsNoLowerBound(p) ==
    IF p.year # None /\ p.year.n < 1900
        THEN Exc("ValueError", <<"Year must be 1900 or later">>)
    ELSE IF p.page < 1
        THEN Exc("ValueError", <<"Page must be 1 or greater">>)
    ELSE IF p.max_results > 100
        THEN Exc("ValueError", <<"max_results must be between 1 and 100">>)
    ELSE IF p.sort_by \notin ValidSortOptions
        THEN Exc("ValueError", <<"sort_by must be one of: ">>)
    ELSE IF p.language # None
            /\ (\/ p.language.ty # "str"
                \/ Len(p.language.s) # 2
                \/ ~IsAlpha(p.language.s))
        THEN Exc("ValueError",
                 <<"language must be a 2-character ISO 639-1 code">>)
    ELSE None

\* _validate_discovery_params: None, or the ValueError it raises
ValidateDiscoveryParams(p) ==
    IF p.year # None /\ p.year.n < 1900
        THEN Exc("ValueError", <<"Year must be 1900 or later">>)
    ELSE IF p.page < 1
        THEN Exc("ValueError", <<"Page must be 1 or greater">>)
    ELSE IF p.max_results < 1 \/ p.max_results > 100
        THEN Exc("ValueError", <<"max_results must be between 1 and 100">>)
    ELSE IF p.sort_by \notin ValidSortOptions
        THEN Exc("ValueError", <<"sort_by must be one of: ">>)
    ELSE IF p.language # None
            /\ (\/ p.language.ty # "str"
                \/ Len(p.language.s) # 2
                \/ ~IsAlpha(p.language.s))
        THEN Exc("ValueError",
                 <<"language must be a 2-character ISO 639-1 code">>)
    ELSE None

\* _build_discovery_params
BuildDiscoveryParams(api_key, genre_id, year, language, sort_by, page) ==
    LET keys == {"api_key", "sort_by", "page", "include_adult",
                 "include_video"}
                \cup (IF genre_id # None THEN {"with_genres"} ELSE {})
                \cup (IF year # None THEN {"primary_release_year"} ELSE {})
                \cup (IF language # None
                         THEN {"with_original_language"} ELSE {})
    IN [k \in keys |->
           CASE k = "api_key" -> Str(<<api_key>>)
             [] k = "sort_by" -> Str(<<sort_by>>)
             [] k = "page" -> IntV(page)
             [] k = "include_adult" -> Bool(FALSE)
             [] k = "include_video" -> Bool(FALSE)
             [] k = "with_genres" -> genre_id
             [] k = "with_original_language" -> language
             [] OTHER -> year]

\* _filter_incomplete_films, on a list of JSON objects
RECURSIVE FilterIncompleteFilms(_)
FilterIncompleteFilms(films_data) ==
    IF films_data = <<>> THEN <<>>
    ELSE LET film == Head(films_data)
             rest == FilterIncompleteFilms(Tail(films_data))
         IN IF TMDBFilmInvalid(film) THEN rest
            ELSE <<TMDBFilm(film)>> \o rest

\* _format_discovery_response
FormatDiscoveryResponse(films, raw_data, page) ==
    [results |-> [i \in 1..Len(films) |->
                     [id |-> films[i].id, title |-> films[i].title,
                      release_date |-> films[i].release_date,
                      vote_average |-> films[i].vote_average,
                      overview |-> films[i].overview,
                      genre_ids |-> Or(films[i].genre_ids, List(<<>>))]],
     total_results |-> GetOrZero(raw_data.total_results),
     page |-> page,
     total_pages |-> GetOrZero(raw_data.total_pages)]

\* discover_films_from_tmdb from the answer of the HTTP request on
DiscoverFilmsAfterRequest(p, resp) ==
    IF resp.kind = "raise"
        THEN [raised |->
                  IF resp.failure = "not_object"
                      THEN Exc("AttributeError",
                               <<"object has no attribute 'get'">>)
                      ELSE resp.exc,
              value |-> NoMediaList]
    ELSE IF UnpackRaises(resp.results)
        THEN [raised |-> Exc("TypeError", <<"mapping">>),
              value |-> NoMediaList]
    ELSE [raised |-> None,
          value |-> FormatDiscoveryResponse(
                        Slice(FilterIncompleteFilms(resp.results),
                              p.max_results),
                        resp, p.page)]

\* the arguments of a discover_films call
DiscoveryArgs ==
    [genre_id : {None, IntV(28)},
     year : {None, IntV(1899), IntV(1900)},
     language : {None, Str(<<"e", "n">>), Str(<<"e">>),
                 Str(<<"e", "n", "g">>), Str(<<"e", "1">>), IntV(5)},
     sort_by : {"popularity.desc", "release_date.asc", "title.asc"},
     page : {0, 1},
     max_results : {0, 1, 100, 101}]

NoDiscoveryArgs ==
    [genre_id |-> None, year |-> None, language |-> None, sort_by |-> "",
     page |-> 0, max_results |-> 0]

\* the film records of the provider the tool is run against
ToolFilmItems ==
    { [EmptyItem EXCEPT !.id = IntV(1), !.title = Str(<<"F">>),
                        !.release_date = Str(ValidDateStr),
                        !.vote_average = Float(84),
                        !.overview = Str(<<"o">>),
                        !.genre_ids = List(<<28>>)],
      [EmptyItem EXCEPT !.id = IntV(3), !.genre_ids = None],
      [EmptyItem EXCEPT !.title = Str(<<"N">>)],
      [EmptyItem EXCEPT !.mapping = FALSE] }

\* what the HTTP request of the tool can end in
ToolDiscoverResponses ==
    {[NoResponse EXCEPT !.kind = "data", !.has_results = TRUE,
                        !.results = p, !.total_results = IntV(100),
                        !.total_pages = IntV(5)] :
         p \in SeqsUpTo(ToolFilmItems, MaxItems)}
    \cup {[NoResponse EXCEPT !.kind = "data"]}
    \cup {[NoResponse EXCEPT !.kind = "raise", !.failure = f,
                             !.exc = ClientGetRaises(f)] :
              f \in UpstreamFailures}

-----------------------------------------------------------------------------
(* Tools: operations *)

NoToolIn ==
    [fetch |-> NoFetch, params |-> NoDiscoveryArgs, api_key |-> FALSE,
     resp |-> NoResponse]

NoToolOut == [raised |-> None, value |-> <<>>]

ToolInit ==
    /\ toolName = "none"
    /\ toolPc = "idle"
    /\ toolIn = NoToolIn
    /\ toolOut = NoToolOut
    /\ fetched = <<>>
    /\ todo = <<>>
    /\ categorized = <<>>
    /\ samples = <<>>
    /\ warnings = <<>>
    /\ effects = <<>>

\* one call of discover_films_from_tmdb: validation, the API key, the HTTP
\* request, filtering and formatting
DiscoverFilms ==
    /\ toolPc = "idle"
    /\ \E p \in DiscoveryArgs, api_key \in BOOLEAN :
        LET invalid == ValidateDiscoveryParams(p)
            getenv == [event |-> "getenv", params |-> <<>>]
            http == [event |-> "http",
                     params |-> BuildDiscoveryParams(
                                    "key", p.genre_id, p.year, p.language,
                                    p.sort_by, p.page)]
        IN IF invalid # None
           THEN /\ toolIn' = [NoToolIn EXCEPT !.params = p,
                                              !.api_key = api_key]
                /\ toolOut' = [raised |-> invalid, value |-> NoMediaList]
                /\ effects' = <<>>
           ELSE IF ~api_key
           THEN /\ toolIn' = [NoToolIn EXCEPT !.params = p,
                                              !.api_key = api_key]
                /\ toolOut' = [raised |->
                                   Exc("ValueError",
                                       <<"TMDB_API_KEY not configured. ">>),
                               value |-> NoMediaList]
                /\ effects' = <<getenv>>
           ELSE \E resp \in ToolDiscoverResponses :
                /\ toolIn' = [NoToolIn EXCEPT !.params = p,
                                              !.api_key = api_key,
                                              !.resp = resp]
                /\ toolOut' = DiscoverFilmsAfterRequest(p, resp)
                /\ effects' = <<getenv, http>>
    /\ toolName' = "discover_films"
    /\ toolPc' = IF toolOut'.raised = None THEN "returned" ELSE "raised"
    /\ UNCHANGED <<fetched, todo, categorized, samples, warnings>>
    /\ UNCHANGED <<compareVars, tmdbVars>>

\* simplify_genres up to the await of ctx.sample: the genres are fetched
SimplifyGenres ==
    /\ toolPc = "idle"
    /\ \E outcome \in ServiceGenreOutcomes :
        LET genres == FetchGenres(outcome)
        IN /\ toolIn' = [NoToolIn EXCEPT !.fetch = outcome]
           /\ effects' = <<[event |-> "get_genres", params |-> <<>>]>>
           /\ fetched' = genres.value
           /\ IF genres.raised # None
              THEN /\ toolOut' = [raised |-> genres.raised, value |-> <<>>]
                   /\ toolPc' = "raised"
              ELSE /\ toolOut' = NoToolOut
                   /\ toolPc' = "sampling"
    /\ toolName' = "simplify_genres"
    /\ UNCHANGED <<todo, categorized, samples, warnings>>
    /\ UNCHANGED <<compareVars, tmdbVars>>

\* ctx.sample answers simplify_genres, which returns the text or warns and
\* returns the sorted names
SimplifySample ==
    /\ toolName = "simplify_genres"
    /\ toolPc = "sampling"
    /\ \E o \in SimplifySampleOutcomes :
        LET r == SimplifyAfterSample(fetched, o)
        IN /\ samples' = Append(samples, [genre |-> "", answer |-> o])
           /\ warnings' = warnings \o r.warned
           /\ toolOut' = [raised |-> r.raised, value |-> r.value]
           /\ toolPc' = IF r.raised = None THEN "returned" ELSE "raised"
    /\ UNCHANGED <<toolName, toolIn, fetched, todo, categorized, effects>>
    /\ UNCHANGED <<compareVars, tmdbVars>>

\* categorize_all_genres up to its loop: the genres are fetched, the
\* buckets created and the names sorted
CategorizeAllGenres ==
    /\ toolPc = "idle"
    /\ \E outcome \in ServiceGenreOutcomes :
        LET genres == FetchGenres(outcome)
        IN /\ toolIn' = [NoToolIn EXCEPT !.fetch = outcome]
           /\ effects' = <<[event |-> "get_genres", params |-> <<>>]>>
           /\ fetched' = genres.value
           /\ IF genres.raised # None
              THEN /\ toolOut' = [raised |-> genres.raised, value |-> <<>>]
                   /\ toolPc' = "raised"
                   /\ todo' = <<>>
                   /\ categorized' = <<>>
              ELSE /\ toolOut' = NoToolOut
                   /\ toolPc' = "categorizing"
                   /\ todo' = Sorted(Keys(genres.value))
                   /\ categorized' = CreateEmptyCategorizedDict
    /\ toolName' = "categorize_all_genres"
    /\ UNCHANGED <<samples, warnings>>
    /\ UNCHANGED <<compareVars, tmdbVars>>

\* one round of the loop of categorize_all_genres: the next name is
\* categorized and appended to the bucket of its mood
CategorizeNextGenre ==
    /\ toolName = "categorize_all_genres"
    /\ toolPc = "categorizing"
    /\ todo # <<>>
    /\ \E o \in CategorizeSampleOutcomes :
        LET genre_name == Head(todo)
            r == CategorizeSingleGenre(genre_name, o)
        IN /\ samples' = IF r.sampled
                            THEN Append(samples, [genre |-> genre_name,
                                                  answer |-> o])
                            ELSE samples
           /\ warnings' = warnings \o r.warned
           /\ categorized' =
                  IF r.mood \in DOMAIN categorized
                      THEN [categorized EXCEPT
                               ![r.mood] = Append(@, genre_name)]
                      ELSE categorized
    /\ todo' = Tail(todo)
    /\ UNCHANGED <<toolName, toolPc, toolIn, toolOut, fetched, effects>>
    /\ UNCHANGED <<compareVars, tmdbVars>>

\* the loop of categorize_all_genres is over: the buckets are returned
CategorizeReturn ==
    /\ toolName = "categorize_all_genres"
    /\ toolPc = "categorizing"
    /\ todo = <<>>
    /\ toolOut' = [raised |-> None, value |-> categorized]
    /\ toolPc' = "returned"
    /\ UNCHANGED <<toolName, toolIn, fetched, todo, categorized, samples,
                   warnings, effects>>
    /\ UNCHANGED <<compareVars, tmdbVars>>

\* the caller has the result or the exception of the tool
ToolCallEnds ==
    /\ toolPc \in {"returned", "raised"}
    /\ toolName' = "none"
    /\ toolPc' = "idle"
    /\ toolIn' = NoToolIn
    /\ toolOut' = NoToolOut
    /\ fetched' = <<>>
    /\ todo' = <<>>
    /\ categorized' = <<>>
    /\ samples' = <<>>
    /\ warnings' = <<>>
    /\ effects' = <<>>
    /\ UNCHANGED <<compareVars, tmdbVars>>

-----------------------------------------------------------------------------
(* Specifications *)

Init == CompareInit /\ TmdbInit /\ ToolInit

Next ==
    \/ CompareLlms
    \/ ResampleStart
    \/ ResampleSettle
    \/ AlternativeStart
    \/ AlternativeSettle
    \/ GatherReturn
    \/ CompareCallEnds

\* the comparison orchestrator
Spec == Init /\ [][Next]_vars

TmdbNext ==
    \/ GetMedia
    \/ GetGenres
    \/ TmdbCallEnds

\* the TMDB normalization service
TmdbSpec == Init /\ [][TmdbNext]_vars

ToolsNext ==
    \/ DiscoverFilms
    \/ SimplifyGenres
    \/ SimplifySample
    \/ CategorizeAllGenres
    \/ CategorizeNextGenre
    \/ CategorizeReturn
    \/ ToolCallEnds

\* the discovery and genre tools
ToolsSpec == Init /\ [][ToolsNext]_vars

-----------------------------------------------------------------------------
(* Properties of the comparison orchestrator (specification Spec) *)

\* a compare_llms invocation has ended, with a return or with an exception
Ended == pc \in {"returned", "raised"}

\* the arguments satisfy the documented bounds: a prompt with a character
\* that is not whitespace, temperature in [0, 2], max_tokens in [1, 4000]
InRange(a) ==
    /\ \E i \in 1..Len(a.prompt) : a.prompt[i] # " "
    /\ a.temperature >= 0 /\ a.temperature <= 20
    /\ a.max_tokens >= 1 /\ a.max_tokens <= 4000

\* the message part occurs in the text whole
Contains(text, part) ==
    \E k \in 0..(Len(text) - Len(part)) :
        SubSeq(text, k + 1, k + Len(part)) = part

\* entry e reports outcome o of the backend labelled label
EntryReports(e, label, o) ==
    /\ e.source = label
    /\ IF IsException(o)
           THEN e.text = None /\ e.error = Str(o.s) /\ e.length = 0
           ELSE e.text = o /\ e.error = None /\ e.length = Len(o.s)

\* C1 (as claimed): whatever the two backend calls do, compare_llms with
\* valid inputs returns (never raises) a result that echoes the prompt and
\* has two entries; a failed backend's entry has text null, the failure's
\* string (containing the original message) as error and length 0, a
\* succeeded backend's entry has the text, error null and the text's length.
C1_Claim ==
    (Ended /\ InRange(args)) =>
        /\ pc = "returned"
        /\ result.value.prompt = args.prompt
        /\ Len(result.value.responses) = 2
        /\ EntryReports(result.value.responses[1], "claude resample",
                        resample.out)
        /\ EntryReports(result.value.responses[2], "ollama alternative",
                        alternative.out)
        /\ \A i \in 1..2 :
               LET e == result.value.responses[i]
               IN (e.text = None) # (e.error = None)
        /\ resample.raw.kind = "raise" =>
               Contains(result.value.responses[1].error.s,
                        resample.raw.val.s)
        /\ alternative.raw.kind = "raise" =>
               Contains(result.value.responses[2].error.s,
                        alternative.raw.val.s)

\* C2: compare_llms called with an empty or all-whitespace prompt, a
\* temperature outside [0, 2] or max_tokens outside [1, 4000] raises
\* ValueError and calls neither ctx.sample nor client.generate.
C2_NoCallOnInvalidInput ==
    (pc # "idle" /\ ~InRange(args)) =>
        /\ pc = "raised"
        /\ result.raised.ty = "ValueError"
        /\ sampleCalls = <<>> /\ generateCalls = <<>>
        /\ resample.st = "pending" /\ alternative.st = "pending"

\* a temperature of 2.1 has been rejected although prompt, max_tokens and
\* the service object are fine
C2_Witness ==
    /\ pc = "raised"
    /\ args.svc = RenamedServiceMethods
    /\ args.prompt = <<"a">>
    /\ args.temperature = 21
    /\ args.max_tokens = DefaultMaxTokens
    /\ sampleCalls = <<>> /\ generateCalls = <<>>

C5_Claim ==
    (Ended /\ InRange(args)) =>
        /\ Len(sampleCalls) = 1 /\ Len(generateCalls) = 1
        /\ sampleCalls[1].messages = args.prompt
        /\ sampleCalls[1].temperature = args.temperature
        /\ sampleCalls[1].max_tokens = args.max_tokens
        /\ generateCalls[1].prompt = args.prompt
        /\ generateCalls[1].temperature = args.temperature
        /\ generateCalls[1].max_tokens = args.max_tokens

\* C6 (as claimed): compare_llms accepts every in-range input, the bounds
\* 0, 2, 1 and 4000 included: it raises no ValueError, calls the two
\* backend operations of the LLM service and returns a result whose prompt
\* is the input prompt.
C6_Claim ==
    (Ended /\ InRange(args)) =>
        /\ result.raised.ty # "ValueError"
        /\ Len(sampleCalls) = 1 /\ Len(generateCalls) = 1
        /\ pc = "returned"
        /\ result.value.prompt = args.prompt

\* C7 (as claimed): whenever ctx.sample raises an exception of any type, or
\* returns an object without a text attribute, the resample call fails with
\* SamplingError and no other kind.
C7_Claim ==
    (resample.st = "done" /\ resample.raw.kind \in {"raise", "notext"}) =>
        resample.out.ty = "SamplingError"

-----------------------------------------------------------------------------
(* Properties of the TMDB service (specification TmdbSpec) *)

\* get_media has returned a MediaList
MediaReturned == op = "get_media" /\ out.raised = None

\* the raw record has an identifier: an id key whose value is not null
HasIdentifier(item) ==
    item.mapping /\ item.id.ty \notin {"absent", "NoneType"}

\* the raw record passes the schema of its media type: an integer
\* identifier (or a string of digits) and every declared optional field
\* absent, null or of its declared type
Conforms(item, media_type) ==
    /\ item.mapping
    /\ \/ item.id.ty = "int"
       \/ item.id.ty = "str" /\ IsDigits(item.id.s)
    /\ \A f \in (IF media_type = "film"
                    THEN {"title", "release_date", "overview"}
                    ELSE {"name", "first_air_date", "overview"}) :
           item[f].ty \in {"absent", "NoneType", "str"}
    /\ item.vote_average.ty \in {"absent", "NoneType", "int", "float"}
    /\ item.genre_ids.ty \in {"absent", "NoneType", "list"}

\* the identifier of the raw record as Media.id shows it
IdText(id) == IF id.ty = "int" THEN IntToStr(id.n) ELSE id.s

CountOf(raw, Keep(_)) == Cardinality({i \in 1..Len(raw) : Keep(raw[i])})

C9_Claim ==
    /\ (op = "get_media" /\ inp.resp.kind = "data" /\ inp.resp.has_results)
           => out.raised = None
    /\ (op = "get_genres" /\ inp.film_resp.kind = "data"
          /\ inp.tv_resp.kind = "data") => out.raised = None

\* C10 (as claimed): for every get_media call that returns, whatever integer
\* max_results the service was given, len(results) <= max_results, and
\* total_results and total_pages are the provider's values.
C10_Claim ==
    MediaReturned =>
        /\ Len(out.value.results) <= inp.max_results
        /\ inp.resp.total_results.ty # "absent" =>
               out.value.total_results = inp.resp.total_results
        /\ inp.resp.total_pages.ty # "absent" =>
               out.value.total_pages = inp.resp.total_pages

\* the raw records of a page that pass the schema, in page order
RECURSIVE ValidRecords(_, _)
ValidRecords(raw, media_type) ==
    IF raw = <<>> THEN <<>>
    ELSE (IF Conforms(Head(raw), media_type) THEN <<Head(raw)>> ELSE <<>>)
             \o ValidRecords(Tail(raw), media_type)

Min(a, b) == IF a < b THEN a ELSE b

\* C11 (as claimed): the results of get_media are exactly the first
\* min(max_results, number of valid records) valid records of the provider
\* page, in the provider's order (no records when that number is not
\* positive).
C11_Claim ==
    MediaReturned =>
        LET valid == ValidRecords(inp.resp.results, inp.media_type)
            k == Min(inp.max_results, Len(valid))
            res == out.value.results
        IN /\ Len(res) = (IF k > 0 THEN k ELSE 0)
           /\ \A j \in 1..Len(res) :
                  j <= Len(valid) /\ res[j].id = Str(IdText(valid[j].id))

\* the part of C11 that the code keeps for every max_results: the results
\* are a prefix of the valid records, in the provider's order
C11_PrefixInProviderOrder ==
    MediaReturned =>
        LET valid == ValidRecords(inp.resp.results, inp.media_type)
            res == out.value.results
        IN /\ Len(res) <= Len(valid)
           /\ \A j \in 1..Len(res) : res[j].id = Str(IdText(valid[j].id))
           /\ inp.max_results >= 0 =>
                  Len(res) = Min(inp.max_results, Len(valid))

\* C12: the page of every MediaList get_media returns is the caller's
\* page number, whatever page the provider's response carries;
\* total_results and total_pages are the provider's values, or 0 when the
\* provider's response omits them.
C12_PageIsCallersPage ==
    MediaReturned =>
        /\ out.value.page = inp.page
        /\ out.value.total_results =
               (IF inp.resp.total_results.ty = "absent" THEN IntV(0)
                ELSE inp.resp.total_results)
        /\ out.value.total_pages =
               (IF inp.resp.total_pages.ty = "absent" THEN IntV(0)
                ELSE inp.resp.total_pages)

\* the provider's response carries another page number than the caller
\* asked for, a total_results and no total_pages
C12_Witness ==
    /\ MediaReturned
    /\ inp.resp.page.ty = "int" /\ inp.resp.page.n # inp.page
    /\ out.value.page = inp.page
    /\ inp.resp.total_results.ty = "int"
    /\ inp.resp.total_pages.ty = "absent" /\ out.value.total_pages = IntV(0)

\* C13: get_media with a media type that has no registered adapter (any
\* type other than film and television, the declared types podcast, book,
\* music and game included) fails with a ValueError that names the type,
\* and issues no request to the catalog client.
C13_UnsupportedMediaType ==
    (op = "get_media" /\ inp.media_type \notin {"film", "television"}) =>
        /\ out.raised.ty = "ValueError"
        /\ Contains(out.raised.s, <<inp.media_type>>)
        /\ requests = <<>>

\* a call for podcasts, with filters given, has failed
C13_Witness ==
    /\ op = "get_media"
    /\ inp.media_type = "podcast"
    /\ inp.filters.year # None
    /\ out.raised.ty = "ValueError"
    /\ requests = <<>>

\* the date string of a raw record, under the field name of its media type
RawDate(item, media_type) ==
    IF media_type = "film" THEN item.release_date ELSE item.first_air_date

\* C14: for every validated record, an absent or malformed date string
\* yields Media.date = null without raising and without dropping the
\* record, and a valid ISO date string yields exactly the parsed calendar
\* date.
C14_DateParsedOrNull ==
    MediaReturned =>
        LET valid == ValidRecords(inp.resp.results, inp.media_type)
            res == out.value.results
        IN /\ inp.max_results >= Len(valid) => Len(res) = Len(valid)
           /\ \A j \in 1..Len(res) :
                  LET d == RawDate(valid[j], inp.media_type)
                  IN /\ res[j].id = Str(IdText(valid[j].id))
                     /\ d = Str(ValidDateStr) =>
                            res[j].date = Date(2024, 2, 29)
                     /\ (\/ d.ty \in {"absent", "NoneType"}
                         \/ d \in {Str(<<>>), Str(BadDateStr),
                                   Str(NoCalendarDateStr)}) =>
                            res[j].date = None

\* a television page with a record dated 29 February of a year that is no
\* leap year, followed by a record with a valid date: both are returned
C14_Witness ==
    /\ MediaReturned
    /\ inp.media_type = "television"
    /\ Len(inp.resp.results) = 2
    /\ inp.resp.results[1].first_air_date = Str(NoCalendarDateStr)
    /\ inp.resp.results[2].first_air_date = Str(ValidDateStr)
    /\ Len(out.value.results) = 2
    /\ out.value.results[1].date = None
    /\ out.value.results[2].date = Date(2024, 2, 29)

\* the title of a raw record, under the field name of its media type
RawTitle(item, media_type) ==
    IF media_type = "film" THEN item.title ELSE item.name

\* C15: every Media returned by get_media has a non-null id (the provider
\* identifier as a string), media_type equal to the requested media type,
\* a non-null title (the empty string when the upstream title is absent or
\* null) and a non-null genre_ids list (empty when upstream genre_ids is
\* absent or null).
C15_MediaFieldsNonNull ==
    MediaReturned =>
        LET valid == ValidRecords(inp.resp.results, inp.media_type)
            res == out.value.results
        IN \A j \in 1..Len(res) :
               LET t == RawTitle(valid[j], inp.media_type)
                   g == valid[j].genre_ids
               IN /\ res[j].id.ty = "str" /\ res[j].id.s # <<>>
                  /\ res[j].id = Str(IdText(valid[j].id))
                  /\ res[j].media_type = inp.media_type
                  /\ res[j].title.ty = "str"
                  /\ res[j].title =
                         (IF t.ty \in {"absent", "NoneType"} THEN Str(<<>>)
                          ELSE t)
                  /\ res[j].genre_ids.ty = "list"
                  /\ res[j].genre_ids =
                         (IF g.ty \in {"absent", "NoneType"} THEN List(<<>>)
                          ELSE g)

\* a television page with a record whose name and genre_ids are null and a
\* record that has only an identifier, given as a string of digits
C15_Witness ==
    /\ MediaReturned
    /\ inp.media_type = "television"
    /\ Len(inp.resp.results) = 2
    /\ inp.resp.results[1].name = None
    /\ inp.resp.results[1].genre_ids = None
    /\ inp.resp.results[2].id.ty = "str"
    /\ inp.resp.results[2].name.ty = "absent"
    /\ Len(out.value.results) = 2
    /\ out.value.results[1].title = Str(<<>>)
    /\ out.value.results[2].genre_ids = List(<<>>)

\* C16: for every get_media call that reaches the provider, the query
\* contains sort_by ("popularity.desc" unless the caller overrides it), the
\* caller's page, include_adult = false and include_video = false; it
\* contains the genre, year and language parameters exactly when the caller
\* provided them, and the year is sent under the parameter name of the
\* requested media type (primary_release_year for film,
\* first_air_date_year for television) to that media type's endpoint.
C16_ProviderQuery ==
    (op = "get_media" /\ inp.media_type \in {"film", "television"}) =>
        /\ Len(requests) = 1
        /\ LET q == requests[1].params
               f == inp.filters
               film == inp.media_type = "film"
               year_name == IF film THEN "primary_release_year"
                            ELSE "first_air_date_year"
               other_year_name == IF film THEN "first_air_date_year"
                                  ELSE "primary_release_year"
           IN /\ requests[1].endpoint =
                     <<"/discover/", IF film THEN "movie" ELSE "tv">>
              /\ {"sort_by", "page", "include_adult", "include_video"}
                     \subseteq DOMAIN q
              /\ q["sort_by"] = (IF f.sort_by = None
                                    THEN Str(<<"popularity.desc">>)
                                    ELSE f.sort_by)
              /\ q["page"] = IntV(inp.page)
              /\ q["include_adult"] = Bool(FALSE)
              /\ q["include_video"] = Bool(FALSE)
              /\ ("with_genres" \in DOMAIN q) <=> (f.genre_id # None)
              /\ f.genre_id # None => q["with_genres"] = f.genre_id
              /\ (year_name \in DOMAIN q) <=> (f.year # None)
              /\ f.year # None => q[year_name] = f.year
              /\ other_year_name \notin DOMAIN q
              /\ ("with_original_language" \in DOMAIN q)
                     <=> (f.language # None)
              /\ f.language # None =>
                     q["with_original_language"] = f.language

\* a television call for page 2 with only the year given has reached the
\* provider
C16_Witness ==
    /\ op = "get_media"
    /\ Len(requests) = 1
    /\ inp.media_type = "television"
    /\ inp.filters.year = IntV(2024)
    /\ inp.filters.genre_id = None
    /\ inp.page = 2
    /\ DOMAIN requests[1].params =
           {"sort_by", "page", "include_adult", "include_video",
            "first_air_date_year"}

\* the error kind documented for a failure of the catalog request
DocumentedErrorKind(failure) ==
    IF failure \in {"http_error", "invalid_json"} THEN "APIResponseError"
    ELSE "APIConnectionError"

\* C17 (as claimed): when the catalog responds with a non-2xx status or an
\* invalid JSON body, get_media and get_genres fail with APIResponseError;
\* when the catalog cannot be reached, they fail with APIConnectionError;
\* the failed request is not repeated and no result takes its place.
C17_Claim ==
    LET Documented == {"http_error", "invalid_json", "unreachable"}
    IN /\ (op = "get_media" /\ inp.resp.failure \in Documented) =>
              /\ out.raised.ty = DocumentedErrorKind(inp.resp.failure)
              /\ Len(requests) = 1
       /\ (op = "get_genres" /\ inp.film_resp.failure \in Documented) =>
              /\ out.raised.ty = DocumentedErrorKind(inp.film_resp.failure)
              /\ Len(requests) = 1
       /\ (op = "get_genres" /\ inp.tv_resp.failure \in Documented) =>
              /\ out.raised.ty = DocumentedErrorKind(inp.tv_resp.failure)
              /\ Len(requests) = 2

\* the part of C17 that the code keeps: a failed catalog request fails the
\* call with the exception of TMDBClient.get, after one attempt
C17_SurfacedNotRetried ==
    /\ (op = "get_media" /\ inp.resp.kind = "raise") =>
           out.raised = inp.resp.exc /\ Len(requests) = 1
    /\ (op = "get_genres" /\ inp.film_resp.kind = "raise") =>
           out.raised = inp.film_resp.exc /\ Len(requests) = 1
    /\ (op = "get_genres" /\ inp.tv_resp.kind = "raise") =>
           out.raised = inp.tv_resp.exc /\ Len(requests) = 2

\* get_genres has returned a GenreList
GenresReturned == op = "get_genres" /\ out.raised = None

\* the raw genre record passes the schema: an integer id (or a string of
\* digits) and a string name
ValidGenre(g) ==
    /\ g.mapping
    /\ g.id.ty = "int" \/ (g.id.ty = "str" /\ IsDigits(g.id.s))
    /\ g.name.ty = "str"

\* the validated records of a vocabulary, in upstream order
ValidGenres(raw) == SelectSeq(raw, ValidGenre)

NamesOf(vocabulary) == {vocabulary[i].name : i \in 1..Len(vocabulary)}

\* C18: for every pair of film and television genre vocabularies, get_genres
\* yields exactly one Genre per distinct name: a name present in both
\* vocabularies has has_films and has_tv_shows set, a name present only in
\* the film vocabulary has only has_films set, and a name present only in
\* the television vocabulary has only has_tv_shows set.
C18_OneGenrePerName ==
    GenresReturned =>
        LET res == out.value
            film_names == NamesOf(ValidGenres(inp.film_resp.genres))
            tv_names == NamesOf(ValidGenres(inp.tv_resp.genres))
        IN /\ \A i \in 1..Len(res) : res[i].name \in film_names \cup tv_names
           /\ \A name \in film_names \cup tv_names :
                  /\ Cardinality({i \in 1..Len(res) : res[i].name = name}) = 1
                  /\ \A i \in 1..Len(res) :
                         res[i].name = name =>
                             /\ res[i].has_films = (name \in film_names)
                             /\ res[i].has_tv_shows = (name \in tv_names)

\* a name in both vocabularies, a name only in the film vocabulary and a
\* name only in the television vocabulary
C18_Witness ==
    /\ GenresReturned
    /\ NamesOf(ValidGenres(inp.film_resp.genres))
           = {Str(<<"A">>), Str(<<"B">>)}
    /\ NamesOf(ValidGenres(inp.tv_resp.genres))
           = {Str(<<"A">>), Str(<<"C">>)}
    /\ Len(out.value) = 3
    /\ \E i \in 1..3 : out.value[i].has_films /\ out.value[i].has_tv_shows

\* the id of a validated genre record, as an integer
GenreIdOf(g) == IF g.id.ty = "int" THEN g.id.n ELSE DigitsToInt(g.id.s)

\* the positions of the records of a vocabulary that carry the name
PositionsOf(vocabulary, name) ==
    {i \in 1..Len(vocabulary) : vocabulary[i].name = name}

MinOf(S) == CHOOSE x \in S : \A y \in S : x <= y
MaxOf(S) == CHOOSE x \in S : \A y \in S : x >= y

\* C19 (as claimed): the id of each merged Genre is the first-seen id for its
\* name in processing order (all validated film records in upstream order,
\* then all validated television records in upstream order); the id of any
\* later record carrying the same name, from the other vocabulary or
\* repeated within the same vocabulary, is discarded.
C19_Claim ==
    GenresReturned =>
        LET res == out.value
            processed == ValidGenres(inp.film_resp.genres)
                             \o ValidGenres(inp.tv_resp.genres)
        IN \A i \in 1..Len(res) :
               /\ PositionsOf(processed, res[i].name) # {}
               /\ res[i].id =
                      IntV(GenreIdOf(processed[
                               MinOf(PositionsOf(processed, res[i].name))]))

\* C19 (amended): the id of a merged Genre whose name occurs in the film
\* vocabulary is the id of the last validated film record with that name;
\* the id of a television-only Genre is the id of the first validated
\* television record with that name; the id of every television record
\* whose name is already present is discarded.
C19_LastFilmIdElseFirstTvId ==
    GenresReturned =>
        LET res == out.value
            film == ValidGenres(inp.film_resp.genres)
            tv == ValidGenres(inp.tv_resp.genres)
        IN \A i \in 1..Len(res) :
               IF PositionsOf(film, res[i].name) # {}
               THEN res[i].id =
                        IntV(GenreIdOf(film[
                                 MaxOf(PositionsOf(film, res[i].name))]))
               ELSE /\ PositionsOf(tv, res[i].name) # {}
                    /\ res[i].id =
                           IntV(GenreIdOf(tv[
                                    MinOf(PositionsOf(tv, res[i].name))]))

\* the film vocabulary has a name twice with two ids and the television
\* vocabulary has it with the first of them: the second film id is kept
C19_Witness ==
    /\ GenresReturned
    /\ Len(inp.film_resp.genres) = 2
    /\ inp.film_resp.genres[1].name = Str(<<"A">>)
    /\ inp.film_resp.genres[1].id = IntV(1)
    /\ inp.film_resp.genres[2].name = Str(<<"A">>)
    /\ inp.film_resp.genres[2].id = IntV(2)
    /\ Len(inp.tv_resp.genres) = 1
    /\ inp.tv_resp.genres[1].name = Str(<<"A">>)
    /\ inp.tv_resp.genres[1].id = IntV(1)
    /\ Len(out.value) = 1
    /\ out.value[1].id = IntV(2)
    /\ out.value[1].has_tv_shows

\* the names of a vocabulary in order of first occurrence
RECURSIVE FirstOccurrences(_)
FirstOccurrences(vocabulary) ==
    IF vocabulary = <<>> THEN <<>>
    ELSE LET before == FirstOccurrences(
                           SubSeq(vocabulary, 1, Len(vocabulary) - 1))
             name == vocabulary[Len(vocabulary)].name
         IN IF \E i \in 1..Len(before) : before[i] = name THEN before
            ELSE Append(before, name)

\* C20: the genres returned by get_genres are in insertion order: every
\* genre whose name occurs in the film vocabulary comes first, in
\* film-vocabulary order of first occurrence, followed by the
\* television-only genres in television-vocabulary order.
C20_InsertionOrder ==
    GenresReturned =>
        LET film == ValidGenres(inp.film_resp.genres)
            tv == ValidGenres(inp.tv_resp.genres)
            TvOnly(name) == name \notin NamesOf(film)
        IN [i \in 1..Len(out.value) |-> out.value[i].name]
               = FirstOccurrences(film)
                     \o SelectSeq(FirstOccurrences(tv), TvOnly)

\* a film vocabulary with a repeated name and a television vocabulary with
\* two names of its own, in another order than their ids
C20_Witness ==
    /\ GenresReturned
    /\ [i \in 1..Len(inp.film_resp.genres) |-> inp.film_resp.genres[i].name]
           = <<Str(<<"A">>), Str(<<"A">>)>>
    /\ [i \in 1..Len(inp.tv_resp.genres) |-> inp.tv_resp.genres[i].name]
           = <<Str(<<"C">>), Str(<<"B">>)>>
    /\ ValidGenres(inp.tv_resp.genres) = inp.tv_resp.genres
    /\ [i \in 1..Len(out.value) |-> out.value[i].name]
           = <<Str(<<"A">>), Str(<<"C">>), Str(<<"B">>)>>

-----------------------------------------------------------------------------
\* C21: get_genres fetches in sequence, the film genres first and the
\* television genres second, one request per media type; when the film fetch
\* fails the television fetch is never issued, the failure of the film fetch
\* is what the caller gets, and no genre list is returned.
C21_FilmThenTelevision ==
    op = "get_genres" =>
        /\ Len(requests) \in {1, 2}
        /\ requests[1].endpoint = <<"/genre/movie/list">>
        /\ Len(requests) = 2 => requests[2].endpoint = <<"/genre/tv/list">>
        /\ IF inp.film_resp.kind = "raise"
              THEN /\ Len(requests) = 1
                   /\ out.raised = inp.film_resp.exc
                   /\ out.value = <<>>
              ELSE Len(requests) = 2

\* the film fetch of a get_genres call has failed
C21_Witness ==
    /\ op = "get_genres"
    /\ inp.film_resp.kind = "raise"
    /\ out.raised # None
    /\ Len(requests) = 1

-----------------------------------------------------------------------------
\* a raw genre record that has both an id and a name
HasIdAndName(g) == g.id # Absent /\ g.name # Absent

\* the raw list without the records that miss an id or a name
Complete(raw) == SelectSeq(raw, HasIdAndName)

\* C22: a raw genre record that misses its id or its name is dropped
\* silently: the call returns what it returns on the lists without these
\* records, so that such a record contributes neither an entry nor a flag;
\* a name whose film records were all dropped and that has a valid
\* television record yields a television-only genre.
C22_IncompleteRecordsDropped ==
    GenresReturned =>
        LET film_resp == inp.film_resp
            tv_resp == inp.tv_resp
            res == out.value
        IN /\ out = GetGenresOutcome(
                        [film_resp EXCEPT !.genres = Complete(@)],
                        [tv_resp EXCEPT !.genres = Complete(@)])
           /\ \A i \in 1..Len(film_resp.genres) :
                  LET g == film_resp.genres[i]
                  IN (/\ ~HasIdAndName(g)
                      /\ g.name # Absent
                      /\ g.name \notin NamesOf(ValidGenres(film_resp.genres))
                      /\ g.name \in NamesOf(ValidGenres(tv_resp.genres)))
                     => \E j \in 1..Len(res) :
                            /\ res[j].name = g.name
                            /\ ~res[j].has_films
                            /\ res[j].has_tv_shows

\* the only film record of B has no id and is dropped, the television list
\* has a valid record of B
C22_Witness ==
    /\ GenresReturned
    /\ inp.film_resp.genres
           = <<[EmptyGenre EXCEPT !.name = Str(<<"B">>)],
               [EmptyGenre EXCEPT !.id = IntV(4)]>>
    /\ inp.tv_resp.genres
           = <<[EmptyGenre EXCEPT !.id = IntV(3), !.name = Str(<<"B">>)]>>
    /\ Len(out.value) = 1
    /\ out.value[1].name = Str(<<"B">>)
    /\ ~out.value[1].has_films
    /\ out.value[1].has_tv_shows

-----------------------------------------------------------------------------
\* C27: over any sequence of get_media and get_genres calls, failing ones
\* included, the configuration of the service stays what the construction
\* made it: the two media types with their configurations.
C27_ConfigurationUnchanged == config_map = ConfigMap

\* a call with an unsupported media type has failed, and a call the catalog
\* failed on, with the configuration as constructed
C27_Witness ==
    /\ config_map = ConfigMap
    /\ op = "get_media"
    /\ out.raised # None
    /\ inp.media_type \notin DOMAIN ConfigMap

-----------------------------------------------------------------------------
\* C29: get_media treats absent response fields asymmetrically. A response
\* object without total_results or total_pages still gives a MediaList that
\* reports 0 for the omitted field; a response object without results makes
\* get_media raise and return no MediaList. get_genres, unlike it, takes a
\* response object without genres for an empty vocabulary and returns.
C29_AbsentFieldsAsymmetric ==
    /\ (op = "get_media" /\ inp.resp.kind = "data") =>
           IF inp.resp.has_results
              THEN out.raised = None =>
                       /\ inp.resp.total_results = Absent
                              => out.value.total_results = IntV(0)
                       /\ inp.resp.total_pages = Absent
                              => out.value.total_pages = IntV(0)
              ELSE /\ out.raised # None
                   /\ out.raised.ty = "KeyError"
                   /\ out.value = NoMediaList
    /\ (/\ op = "get_genres"
        /\ inp.film_resp.kind = "data"
        /\ inp.tv_resp.kind = "data"
        /\ ~inp.film_resp.has_genres
        /\ ~UnpackRaises(inp.tv_resp.genres)) =>
           /\ out.raised = None
           /\ \A i \in 1..Len(out.value) : ~out.value[i].has_films
           /\ ~inp.tv_resp.has_genres => out.value = <<>>

\* a page with results and without totals has been returned
C29_Witness ==
    /\ op = "get_media"
    /\ inp.resp.kind = "data"
    /\ inp.resp.has_results
    /\ inp.resp.results # <<>>
    /\ inp.resp.total_results = Absent
    /\ inp.resp.total_pages = Absent
    /\ out.raised = None
    /\ Len(out.value.results) > 0
    /\ out.value.total_results = IntV(0)
    /\ out.value.total_pages = IntV(0)

\* a response object without results has made get_media raise
C29_WitnessNoResults ==
    /\ op = "get_media"
    /\ inp.resp.kind = "data"
    /\ ~inp.resp.has_results
    /\ out.raised # None

-----------------------------------------------------------------------------
\* the alternative client has returned a response object
AlternativeAnswered ==
    alternative.st = "done" /\ alternative.raw.kind \in {"response", "absent"}

\* C28: whenever the alternative client returns a response object, the
\* alternative backend call yields a string: the value of the response
\* field, or the empty string when the field is absent; so for every value
\* of the field, null included, compare returns normally and the alternative
\* entry has a text, no error, and the character count of the text as length.
C28_Claim ==
    AlternativeAnswered =>
        /\ alternative.out.ty = "str"
        /\ alternative.raw.kind = "absent" => alternative.out = Str(<<>>)
        /\ (Ended /\ resample.out.ty = "str") =>
               /\ pc = "returned"
               /\ LET e == result.value.responses[2]
                  IN /\ e.text # None
                     /\ e.error = None
                     /\ e.length = Len(e.text.s)

\* what holds of C28: when the response field is absent or holds a string,
\* the alternative backend call yields that string (the empty one when
\* absent) and the alternative entry reports it with its character count.
C28_StringFieldReported ==
    (/\ AlternativeAnswered
     /\ alternative.raw.kind = "absent" \/ alternative.raw.val.ty = "str") =>
        /\ alternative.out = IF alternative.raw.kind = "absent"
                                 THEN Str(<<>>) ELSE alternative.raw.val
        /\ (Ended /\ resample.out.ty = "str") =>
               /\ pc = "returned"
               /\ LET e == result.value.responses[2]
                  IN /\ e.text = alternative.out
                     /\ e.error = None
                     /\ e.length = Len(e.text.s)

-----------------------------------------------------------------------------
\* a language argument that is a two-letter alphabetic code
TwoLetterCode(language) ==
    /\ language.ty = "str"
    /\ Len(language.s) = 2
    /\ \A i \in 1..2 : language.s[i] \in AlphaChars

\* the arguments of a discovery call the claim C23 calls invalid
OutOfBounds(p) ==
    \/ p.year # None /\ p.year.n < 1900
    \/ p.page < 1
    \/ p.max_results < 1
    \/ p.max_results > 100
    \/ p.language # None /\ ~TwoLetterCode(p.language)
    \/ p.sort_by \notin ValidSortOptions

\* C23: a discovery call with a year below 1900, a page below 1, max_results
\* outside 1..100, a language that is no two-letter alphabetic code, or a
\* sort key outside the valid set fails with ValueError before any
\* configuration lookup or network request; the boundary values year 1900,
\* page 1, max_results 1 and max_results 100 are accepted.
C23_InvalidArgumentsRejectedFirst ==
    toolName = "discover_films" =>
        LET p == toolIn.params
        IN IF OutOfBounds(p)
              THEN /\ toolPc = "raised"
                   /\ toolOut.raised.ty = "ValueError"
                   /\ effects = <<>>
              ELSE /\ effects # <<>>
                   /\ effects[1].event = "getenv"
                   /\ toolIn.api_key => /\ Len(effects) = 2
                                        /\ effects[2].event = "http"

\* the boundary values are accepted and the request is made
C23_Witness ==
    /\ toolName = "discover_films"
    /\ toolIn.params.year = IntV(1900)
    /\ toolIn.params.page = 1
    /\ toolIn.params.max_results = 1
    /\ toolIn.params.language = Str(<<"e", "n">>)
    /\ toolPc = "returned"
    /\ Len(effects) = 2
    /\ Len(toolOut.value.results) = 1

\* max_results 0 is rejected before the API key is looked up
C23_WitnessRejected ==
    /\ toolName = "discover_films"
    /\ toolIn.params.max_results = 0
    /\ toolIn.params.year = IntV(1900)
    /\ toolIn.params.page = 1
    /\ toolIn.api_key
    /\ toolOut.raised.ty = "ValueError"
    /\ effects = <<>>

-----------------------------------------------------------------------------
\* categorize_all_genres has returned its buckets
CategorizeReturned ==
    toolName = "categorize_all_genres" /\ toolPc = "returned"

\* the genre names fetch_genres returned
FetchedNames == {Keys(fetched)[i] : i \in 1..Len(fetched)}

\* C24: categorize_all_genres returns a mapping with exactly the five mood
\* keys Dark, Light, Serious, Fun and Other, also when there are no genres;
\* every genre name returned by fetch_genres is in exactly one of the five
\* lists, the lists hold nothing else, and each list is in ascending name
\* order.
C24_FiveSortedBuckets ==
    CategorizeReturned =>
        LET res == toolOut.value
        IN /\ DOMAIN res = {"Dark", "Light", "Serious", "Fun", "Other"}
           /\ \A name \in FetchedNames :
                  Cardinality({<<m, i>> \in (DOMAIN res) \X (1..Len(fetched)) :
                                  i <= Len(res[m]) /\ res[m][i] = name}) = 1
           /\ \A m \in DOMAIN res :
                  /\ \A i \in 1..Len(res[m]) : res[m][i] \in FetchedNames
                  /\ \A i, j \in 1..Len(res[m]) :
                         i < j => StrLess(res[m][i], res[m][j])

\* the catalog lists Noir before Horror; both are in the bucket Dark, Horror
\* first
C24_Witness ==
    /\ CategorizeReturned
    /\ Keys(fetched) = <<"Noir", "Horror">>
    /\ toolOut.value["Dark"] = <<"Horror", "Noir">>

\* the catalog has no genres and the five buckets are returned empty
C24_WitnessNoGenres ==
    /\ CategorizeReturned
    /\ fetched = <<>>
    /\ \A m \in {"Dark", "Light", "Serious", "Fun", "Other"} :
           toolOut.value[m] = <<>>

-----------------------------------------------------------------------------
\* the fetched names that the hardcoded mood map does not have
UnmappedNames == FetchedNames \ DOMAIN GENRE_MOOD_MAP

\* the warnings issued for a genre name
WarningsFor(name) == {j \in 1..Len(warnings) : warnings[j][2] = name}

\* the sampled text is one of the moods once stripped
ValidMoodText(text) == Len(Strip(text)) = 1 /\ Strip(text)[1] \in Mood

\* C25: in categorize_all_genres sampling is requested only for the genres
\* absent from the hardcoded mood map, once per such genre and in ascending
\* name order; a genre whose sampling call raises, or returns a text that is
\* no valid mood, is placed in Other; a raising call issues exactly one
\* warning, a call that returns text none; the remaining genres are still
\* categorized.
C25_SamplingOfUnmappedGenres ==
    toolName = "categorize_all_genres" =>
        /\ \A i \in 1..Len(samples) : samples[i].genre \in UnmappedNames
        /\ \A i, j \in 1..Len(samples) :
               i < j => StrLess(samples[i].genre, samples[j].genre)
        /\ \A i \in 1..Len(samples) :
               LET name == samples[i].genre
                   answer == samples[i].answer
               IN /\ answer.kind = "raise" =>
                         /\ Cardinality(WarningsFor(name)) = 1
                         /\ \E j \in 1..Len(categorized["Other"]) :
                                categorized["Other"][j] = name
                  /\ answer.kind = "text" =>
                         /\ WarningsFor(name) = {}
                         /\ ~ValidMoodText(answer.text) =>
                                \E j \in 1..Len(categorized["Other"]) :
                                    categorized["Other"][j] = name
        /\ \A j \in 1..Len(warnings) :
               \E i \in 1..Len(samples) :
                   /\ samples[i].genre = warnings[j][2]
                   /\ samples[i].answer.kind # "text"
        /\ toolPc = "returned" =>
               /\ {samples[i].genre : i \in 1..Len(samples)} = UnmappedNames
               /\ toolOut.value = categorized
               /\ \A name \in FetchedNames :
                      \E m \in Mood :
                          \E j \in 1..Len(categorized[m]) :
                              categorized[m][j] = name

\* Horror, Noir and Western are fetched: Noir is sampled first and its call
\* raises, Western is sampled next and gets its mood
C25_Witness ==
    /\ CategorizeReturned
    /\ FetchedNames = {"Horror", "Noir", "Western"}
    /\ Len(samples) = 2
    /\ samples[1].genre = "Noir"
    /\ samples[1].answer.kind = "raise"
    /\ samples[2].genre = "Western"
    /\ samples[2].answer.text = <<" ", "Fun", " ">>
    /\ Len(warnings) = 1
    /\ toolOut.value["Dark"] = <<"Horror">>
    /\ toolOut.value["Other"] = <<"Noir">>
    /\ toolOut.value["Fun"] = <<"Western">>

-----------------------------------------------------------------------------
\* simplify_genres has got the answer of its sampling call
SimplifySampled == toolName = "simplify_genres" /\ Len(samples) = 1

\* C26: simplify_genres never fails because sampling failed: when the
\* sampling call raises it issues exactly one warning and returns the genre
\* names sorted ascending and joined by ", "; when sampling succeeds it
\* returns the sampled text unchanged and issues no warning.
C26_SamplingFailureFallsBack ==
    (toolName = "simplify_genres" /\ samples # <<>>) =>
        /\ Len(samples) = 1
        /\ toolPc = "returned"
        /\ toolOut.raised = None
        /\ samples[1].answer.kind = "raise" =>
               /\ Len(warnings) = 1
               /\ toolOut.value = Join(Sorted(Keys(fetched)))
               /\ \A i \in 1..Len(toolOut.value) :
                      IF i % 2 = 1
                         THEN /\ toolOut.value[i] \in FetchedNames
                              /\ i > 2 => StrLess(toolOut.value[i - 2],
                                                  toolOut.value[i])
                         ELSE toolOut.value[i] = ", "
               /\ Len(toolOut.value) = IF fetched = <<>> THEN 0
                                       ELSE 2 * Len(fetched) - 1
        /\ samples[1].answer.kind = "text" =>
               /\ warnings = <<>>
               /\ toolOut.value = samples[1].answer.text

\* the catalog lists Western, Comedy and Horror; the sampling call raises
\* and the names come back sorted and joined
C26_Witness ==
    /\ SimplifySampled
    /\ Keys(fetched) = <<"Western", "Comedy", "Horror">>
    /\ samples[1].answer.kind = "raise"
    /\ Len(warnings) = 1
    /\ toolOut.raised = None
    /\ toolOut.value = <<"Comedy", ", ", "Horror", ", ", "Western">>

\* the sampling call succeeds and its text is returned
C26_WitnessSampled ==
    /\ SimplifySampled
    /\ samples[1].answer.kind = "text"
    /\ toolOut.value = <<"Here are the genres: ", "Horror">>
    /\ warnings = <<>>

-----------------------------------------------------------------------------
\* a genre tool that samples is in progress or has ended
GenreToolCalled == toolName \in {"simplify_genres", "categorize_all_genres"}

\* C30: simplify_genres and categorize_all_genres fetch the genre list
\* before any sampling: the fetch is the first thing a call does, and when
\* it fails the failure reaches the caller unchanged with no sampling call
\* and no warning made; a sampling call or a warning is only ever made
\* after a fetch that succeeded.
C30_FetchBeforeSampling ==
    GenreToolCalled =>
        /\ Len(effects) = 1
        /\ effects[1].event = "get_genres"
        /\ toolIn.fetch.raised # None =>
               /\ toolPc = "raised"
               /\ toolOut.raised = toolIn.fetch.raised
               /\ toolOut.value = <<>>
               /\ samples = <<>>
               /\ warnings = <<>>
        /\ (samples # <<>> \/ warnings # <<>>) => toolIn.fetch.raised = None

\* the catalog could not be reached when simplify_genres fetched the genres
C30_Witness ==
    /\ toolName = "simplify_genres"
    /\ toolIn.fetch.raised.ty = "ConnectionError"
    /\ toolPc = "raised"
    /\ toolOut.raised = toolIn.fetch.raised
    /\ samples = <<>>
    /\ warnings = <<>>

\* the same for categorize_all_genres, on an error status of the catalog
C30_WitnessCategorize ==
    /\ toolName = "categorize_all_genres"
    /\ toolIn.fetch.raised.ty = "RuntimeError"
    /\ toolPc = "raised"
    /\ samples = <<>>
    /\ warnings = <<>>

====
